---- MODULE Spec2Model ----
(***************************************************************************)
(* The LMS back end (sasbaws22/mylms) as a state machine: the tables the   *)
(* services write and one action per service method, each action being the *)
(* whole method (its queries, its writes, its commit and the roll-ups it    *)
(* calls).  Calls are made one at a time unless a specification says        *)
(* otherwise.  Timestamps are abstracted to NULL / Now, float percentages   *)
(* to exact rationals <<numerator, denominator>> in lowest terms.           *)
(***************************************************************************)
EXTENDS Integers, Sequences, FiniteSets, TLC

\* ---------------------------------------------------------------- bounds
\* Rows the module table may ever hold (ids are never reused).
MaxModules == 2
\* Rows the enrollment, module_progress and content_progress tables may hold.
MaxEnrollments == 2
MaxModuleProgress == 2
MaxContentProgress == 2
\* Modules of the course of the end-to-end progress scenario.
ScenarioModules == 3
\* Length of the user_ids list of one bulk enrollment.
MaxBulk == 2
\* Rows the quiz_attempt table may hold, and how many of them a run that
\* scores rich submissions creates.
MaxQuizAttempts == 3
MaxScoredAttempts == 2
\* Length of the responses list of one submission.
MaxResponses == 2
\* Largest max_attempts an update_quiz call sets.
MaxAllowedAttempts == 2
\* Requests that run concurrently in one behaviour.
MaxCalls == 3
\* Concurrent record-content-progress requests in one behaviour.
MaxProgressCalls == 2
\* Largest time_spent a ContentProgress row accumulates.
MaxTimeSpent == 3
\* Ticks the server clock may advance.
MaxClock == 2
\* Rows of the certificate table.
MaxCertificates == 2

\* ------------------------------------------------------------- universes
NULL == "null"
\* The value of datetime.utcnow() / datetime.now(), whenever it is taken.
Now == "ts"

\* Rows of the users and course tables, and ids that name no row.
Users == {"u1", "u2"}
Courses == {"c1", "c2"}
NoUser == "u?"
NoCourse == "c?"

\* ProgressUpdateSchema.content_type is a free string.
ContentTypes == {"video", "quiz"}
ProgressStatus == {"not_started", "in_progress", "completed"}
EnrollmentStatus == {"enrolled", "in_progress", "completed", "dropped"}
\* EnrollmentCreateSchema.due_date, the assigned_by argument of enroll_user and
\* ModuleCreateSchema.order_index (>= 0, 0 the default), as drawn.
DueDates == {NULL, "due"}
Assigners == {NULL, "admin"}
OrderIndexes == {0, 1}
\* BulkEnrollmentSchema.user_ids: at least one id, repeats allowed.
BulkLists == UNION {[1..n -> Users \cup {NoUser}] : n \in 1..MaxBulk}

\* Rows of the quiz table, and an id that names no row.
Quizzes == {"q1", "q2"}
NoQuiz == "q?"
QuestionTypes == {"multiple_choice", "true_false", "short_answer", "essay"}
\* None for an optional id (ids are 1, 2, ...) and for an optional number of a
\* schema (all of them are >= 0).
NoId == 0
Absent == -1
\* ProgressUpdateSchema.time_spent (None or >= 0), as drawn.
TimeIncrements == {Absent, 1}
\* ProgressUpdateSchema.progress_percentage (0 <= p <= 100), as drawn.
Percentages == {0, 100}
\* A text is a string of characters; None is told apart from every string.
NoText == <<NULL>>
\* The signing key of the server, and a key that is not it.
SecretKey == "secret"
ForgedKey == "forged"
\* ACCESS_TOKEN_EXPIRE_MINUTES and REFRESH_TOKEN_EXPIRE_DAYS, in clock ticks.
AccessTokenExpire == 1
RefreshTokenExpire == 2
\* What decode_token returns for a token it does not accept.
NoPayload == [none |-> TRUE]
\* QuizCreateSchema defaults.
DefaultMaxAttempts == 3
\* Quiz.passing_score (0 <= p <= 100), as drawn.
PassingScores == {0, 50}

VARIABLES
    courses,          \* course table: id -> [status, published_at, live]
    modules,          \* module table: sequence, id = index, [course_id, live]
    enrollments,      \* enrollment table, in insertion order, id = index
    module_progress,  \* module_progress table, in insertion order, id = index
    content_progress, \* content_progress table, in insertion order, id = index
    quizzes,          \* quiz table: id -> [max_attempts, passing_score], or <<>>
    questions,        \* question table: id = index, [quiz_id, question_type, points]
    question_options, \* question_option table: id = index, [is_correct]
    quiz_attempts,    \* quiz_attempt table, in insertion order, id = index
    quiz_responses,   \* quiz_response table, in insertion order, id = index
    issued,           \* tokens handed to clients: [field, token] per response field
    clock,            \* the server's time, in ticks
    calls,            \* requests in flight: per request its position and locals
    users,            \* user table: id -> [is_active]
    certificates,     \* certificate table, in insertion order, id = index
    result            \* what the last call returned or raised

quizVars == <<quizzes, questions, question_options, quiz_attempts, quiz_responses>>

sessionVars == <<issued, clock, calls>>

userVars == <<users, certificates>>

vars == <<courses, modules, enrollments, module_progress, content_progress, quizVars,
          sessionVars, userVars, result>>

\* ------------------------------------------------------------- helpers
RECURSIVE Gcd(_, _)
Gcd(a, b) == IF b = 0 THEN a ELSE Gcd(b, a % b)

\* The float n / d as an exact rational in lowest terms (d > 0, n >= 0).
Ratio(n, d) == LET g == Gcd(n, d) IN <<n \div g, d \div g>>

\* Indices of the rows of table t that satisfy P, and the first of them
\* (what .first() returns for rows inserted one at a time); 0 when none.
Matching(t, P(_)) == {i \in 1..Len(t) : P(t[i])}
Min(S) == CHOOSE x \in S : \A y \in S : x <= y
First(t, P(_)) == IF Matching(t, P) = {} THEN 0 ELSE Min(Matching(t, P))

\* An HTTPException.
Raise(op, code, detail) == [op |-> op, code |-> code, detail |-> detail]

\* select(Course).where(Course.id == course_id) finds a row.
CourseExists(c) == c \in DOMAIN courses /\ courses[c].live

\* len(course.modules): the live rows of the module table of one course.
CourseModules(mods, c) == {m \in 1..Len(mods) : mods[m].live /\ mods[m].course_id = c}

\* ------------------------------------------------- ProgressService roll-ups
\* select(func.count(ModuleProgress.id)) of one enrollment with status completed.
CompletedModulesCount(mps, e) ==
    Cardinality({i \in 1..Len(mps) : mps[i].enrollment_id = e /\ mps[i].status = "completed"})

\* A roll-up that calls a module completed as soon as one item under it is.
UpdateModuleProgressStatusAnyCompleted(mps, cps, id) ==
    IF id \notin 1..Len(mps) THEN mps
    ELSE IF \E i \in 1..Len(cps) : cps[i].module_progress_id = id /\ cps[i].status = "completed"
    THEN [mps EXCEPT ![id].status = "completed", ![id].completed_at = Now]
    ELSE [mps EXCEPT ![id].status = "not_started"]

\* A roll-up without the in_progress branch: not all completed is not_started.
UpdateModuleProgressStatusResets(mps, cps, id) ==
    IF id \notin 1..Len(mps) THEN mps
    ELSE IF \A i \in 1..Len(cps) : cps[i].module_progress_id = id => cps[i].status = "completed"
    THEN [mps EXCEPT ![id].status = "completed", ![id].completed_at = Now]
    ELSE [mps EXCEPT ![id].status = "not_started"]

\* A roll-up that leaves the status alone when no item is completed, so that a
\* module_progress created as in_progress stays so.
UpdateModuleProgressStatusKeepsStarted(mps, cps, id) ==
    IF id \notin 1..Len(mps) THEN mps
    ELSE LET all_content_progress == {i \in 1..Len(cps) : cps[i].module_progress_id = id}
             completed_count == Cardinality({i \in all_content_progress : cps[i].status = "completed"})
         IN  IF all_content_progress # {} /\ completed_count = Cardinality(all_content_progress)
             THEN [mps EXCEPT ![id].status = "completed", ![id].completed_at = Now]
             ELSE IF completed_count > 0
             THEN [mps EXCEPT ![id].status = "in_progress"]
             ELSE mps

\* _update_module_progress_status: the module_progress table after it.
UpdateModuleProgressStatus(mps, cps, id) ==
    IF id \notin 1..Len(mps) THEN mps
    ELSE LET all_content_progress == {i \in 1..Len(cps) : cps[i].module_progress_id = id}
             completed_count == Cardinality({i \in all_content_progress : cps[i].status = "completed"})
         IN  IF all_content_progress = {}
             THEN [mps EXCEPT ![id].status = "not_started"]
             ELSE IF completed_count = Cardinality(all_content_progress)
             THEN [mps EXCEPT ![id].status = "completed", ![id].completed_at = Now]
             ELSE IF completed_count > 0
             THEN [mps EXCEPT ![id].status = "in_progress"]
             ELSE [mps EXCEPT ![id].status = "not_started"]

\* A roll-up that divides by the modules of every course, not of the
\* enrollment's course.
UpdateEnrollmentProgressStatusAllCourses(enrs, mps, mods, id) ==
    IF id \notin 1..Len(enrs) THEN enrs
    ELSE LET total_modules == Cardinality({m \in 1..Len(mods) : mods[m].live})
             completed_modules_count == CompletedModulesCount(mps, id)
         IN  IF total_modules = 0
             THEN [enrs EXCEPT ![id].progress_percentage = <<100, 1>>,
                               ![id].status = "completed"]
             ELSE [enrs EXCEPT ![id].progress_percentage =
                                    Ratio(completed_modules_count * 100, total_modules),
                               ![id].status = "in_progress"]

\* A roll-up that marks an enrollment with no completed module as dropped.
UpdateEnrollmentProgressStatusDrops(enrs, mps, mods, id) ==
    IF id \notin 1..Len(enrs) THEN enrs
    ELSE IF CompletedModulesCount(mps, id) = 0
    THEN [enrs EXCEPT ![id].progress_percentage = <<0, 1>>, ![id].status = "dropped"]
    ELSE [enrs EXCEPT ![id].status = "in_progress"]

\* _update_enrollment_progress_status: the enrollment table after it.
UpdateEnrollmentProgressStatus(enrs, mps, mods, id) ==
    IF id \notin 1..Len(enrs) THEN enrs
    ELSE IF ~CourseExists(enrs[id].course_id) THEN enrs
    ELSE LET total_modules == Cardinality(CourseModules(mods, enrs[id].course_id))
             completed_modules_count == CompletedModulesCount(mps, id)
         IN  IF total_modules = 0
             THEN [enrs EXCEPT ![id].progress_percentage = <<100, 1>>,
                               ![id].status = "completed"]
             ELSE LET pct == Ratio(completed_modules_count * 100, total_modules)
                  IN  IF completed_modules_count = total_modules
                      THEN [enrs EXCEPT ![id].progress_percentage = pct,
                                        ![id].status = "completed",
                                        ![id].completed_at = Now]
                      ELSE IF completed_modules_count > 0
                      THEN [enrs EXCEPT ![id].progress_percentage = pct,
                                        ![id].status = "in_progress"]
                      ELSE [enrs EXCEPT ![id].progress_percentage = pct,
                                        ![id].status = "enrolled"]

\* ---------------------------------------------------------------- Init
Init ==
    /\ courses = [c \in Courses |-> [status |-> "draft", published_at |-> NULL, live |-> TRUE]]
    /\ modules = <<>>
    /\ enrollments = <<>>
    /\ module_progress = <<>>
    /\ content_progress = <<>>
    /\ quizzes = <<>>
    /\ questions = <<>>
    /\ question_options = <<>>
    /\ quiz_attempts = <<>>
    /\ quiz_responses = <<>>
    /\ issued = {}
    /\ clock = 0
    /\ users = [u \in Users |-> [is_active |-> TRUE]]
    /\ certificates = <<>>
    /\ calls = <<>>
    /\ result = [op |-> "none", code |-> 0, detail |-> ""]

\* ------------------------------------------------------- CourseService
\* The Enrollment row enroll_user builds.
NewEnrollment(user_id, course_id, due_date, assigned_by) ==
    [user_id |-> user_id, course_id |-> course_id, enrolled_at |-> Now,
     started_at |-> NULL, completed_at |-> NULL,
     progress_percentage |-> <<0, 1>>, status |-> "enrolled",
     assigned_by |-> assigned_by, due_date |-> due_date]

\* enroll_user without the look-up of an existing enrollment.
EnrollUserCallNoExistingCheck(enrs, user_id, course_id, due_date, assigned_by) ==
    IF user_id \notin Users
    THEN [table |-> enrs, out |-> Raise("enroll_user", 404, "User not found")]
    ELSE IF ~CourseExists(course_id)
    THEN [table |-> enrs, out |-> Raise("enroll_user", 404, "Course not found")]
    ELSE [table |-> Append(enrs, NewEnrollment(user_id, course_id, due_date, assigned_by)),
          out |-> [op |-> "enroll_user", code |-> 200, detail |-> "",
                   enrollment_id |-> Len(enrs) + 1]]

\* enroll_user on the enrollment table enrs: the table after the call and what
\* the call returned or raised.  The course-assignment mail is sent after the
\* commit and its outcome is dropped (EmailService.send_email returns False on
\* any failure), so it is no part of the result.
EnrollUserCall(enrs, user_id, course_id, due_date, assigned_by) ==
    IF user_id \notin Users
    THEN [table |-> enrs, out |-> Raise("enroll_user", 404, "User not found")]
    ELSE IF ~CourseExists(course_id)
    THEN [table |-> enrs, out |-> Raise("enroll_user", 404, "Course not found")]
    ELSE IF \E i \in 1..Len(enrs) : enrs[i].user_id = user_id /\ enrs[i].course_id = course_id
    THEN [table |-> enrs,
          out |-> Raise("enroll_user", 400, "User is already enrolled in this course")]
    ELSE [table |-> Append(enrs, NewEnrollment(user_id, course_id, due_date, assigned_by)),
          out |-> [op |-> "enroll_user", code |-> 200, detail |-> "",
                   enrollment_id |-> Len(enrs) + 1]]

EnrollUser(user_id, course_id, due_date, assigned_by) ==
    \E call \in {EnrollUserCall(enrollments, user_id, course_id, due_date, assigned_by)} :
        /\ Len(call.table) <= MaxEnrollments
        /\ enrollments' = call.table
        /\ result' = call.out
        /\ UNCHANGED <<courses, modules, module_progress, content_progress, quizVars, sessionVars, userVars>>

\* ----------------------------------------------------------- EmailService
\* What elasticmail_client.send_email does with a message: it answers with a
\* message id, answers without one, or raises.
MailResponses == {"messageid", "no_messageid", "raises"}

\* A send_email without its try/except: the client's exception goes on to the
\* caller.
SendEmailPropagates(response) ==
    IF response = "raises" THEN "exception"
    ELSE IF response = "messageid" THEN "True" ELSE "False"

\* send_email: True when the response has a message id, False when it has
\* none and False when the client raised, the exception being logged.
SendEmail(response) == IF response = "messageid" THEN "True" ELSE "False"

\* send_course_assignment_email: returns what send_email returns.
SendCourseAssignmentEmail(response) == SendEmail(response)

\* enroll_user with the mail it sends after its commit: the value returned by
\* send_course_assignment_email is dropped (email_sent records it here).
EnrollUserMail(user_id, course_id, due_date, assigned_by, response) ==
    \E call \in {EnrollUserCall(enrollments, user_id, course_id, due_date, assigned_by)} :
        /\ Len(call.table) <= MaxEnrollments
        /\ enrollments' = call.table
        /\ result' = IF call.out.code # 200 THEN call.out
                     ELSE IF SendCourseAssignmentEmail(response) = "exception"
                     THEN Raise("enroll_user", 500, "Internal Server Error")
                     ELSE call.out @@ [email_sent |-> SendCourseAssignmentEmail(response)]
        /\ UNCHANGED <<courses, modules, module_progress, content_progress, quizVars, sessionVars, userVars>>

\* enroll_user as the requests of several clients run it: each await hands the
\* event loop (and the database) to the other requests.  The three selects
\* read tables that nothing here changes between them, so they are one step;
\* the insert is flushed and committed at `await self.db.commit()`.
EnrollUserSelects(user_id, course_id, due_date, assigned_by) ==
    /\ Len(calls) < MaxCalls
    /\ \E call \in {EnrollUserCall(enrollments, user_id, course_id, due_date, assigned_by)} :
        IF call.out.code # 200
        THEN /\ result' = call.out
             /\ UNCHANGED calls
        ELSE /\ calls' = Append(calls, [op |-> "enroll_user", pc |-> "commit",
                                        user_id |-> user_id, course_id |-> course_id,
                                        due_date |-> due_date, assigned_by |-> assigned_by])
             /\ result' = [op |-> "enroll_user", code |-> 0, detail |-> "selects done",
                           call |-> Len(calls) + 1]
    /\ UNCHANGED <<courses, modules, enrollments, module_progress, content_progress,
                   quizVars, issued, clock, userVars>>

\* The commit of a request that looks for an existing enrollment once more.
EnrollUserInsertRechecked(enrs, call) ==
    EnrollUserCall(enrs, call.user_id, call.course_id, call.due_date, call.assigned_by).table

\* self.db.add(new_enrollment); await self.db.commit(): the table has no
\* unique constraint on (user_id, course_id), so the insert always succeeds.
EnrollUserInsert(enrs, call) ==
    Append(enrs, NewEnrollment(call.user_id, call.course_id, call.due_date, call.assigned_by))

EnrollUserCommit(r) ==
    /\ calls[r].op = "enroll_user" /\ calls[r].pc = "commit"
    /\ enrollments' = EnrollUserInsert(enrollments, calls[r])
    /\ calls' = [calls EXCEPT ![r].pc = "done"]
    /\ result' = [op |-> "enroll_user", code |-> 200, detail |-> "", call |-> r,
                  enrollment_id |-> Len(enrollments')]
    /\ UNCHANGED <<courses, modules, module_progress, content_progress,
                   quizVars, issued, clock, userVars>>

\* A bulk enrollment that gives up at the first id it cannot enroll.
RECURSIVE BulkEnrollLoopStopsAtFailure(_, _, _, _, _)
BulkEnrollLoopStopsAtFailure(user_ids, n, course_id, due_date, assigned_by) ==
    IF n = 0
    THEN [table |-> enrollments, successful |-> 0, failures |-> <<>>]
    ELSE LET before == BulkEnrollLoopStopsAtFailure(user_ids, n - 1, course_id, due_date,
                                                    assigned_by)
             call == EnrollUserCall(before.table, user_ids[n], course_id, due_date, assigned_by)
         IN  IF before.failures # <<>>
             THEN before
             ELSE IF call.out.code = 200
             THEN [table |-> call.table, successful |-> before.successful + 1,
                   failures |-> before.failures]
             ELSE [table |-> call.table, successful |-> before.successful,
                   failures |-> Append(before.failures,
                                       [user_id |-> user_ids[n], code |-> call.out.code,
                                        error |-> call.out.detail])]

\* bulk_enroll_users: enroll_user for each id in turn, an exception becoming a
\* failure entry whose error is str(e), "<status_code>: <detail>", kept here as
\* the pair (code, error).  The state after the first n ids of user_ids.
RECURSIVE BulkEnrollLoop(_, _, _, _, _)
BulkEnrollLoop(user_ids, n, course_id, due_date, assigned_by) ==
    IF n = 0
    THEN [table |-> enrollments, successful |-> 0, failures |-> <<>>]
    ELSE LET before == BulkEnrollLoop(user_ids, n - 1, course_id, due_date, assigned_by)
             call == EnrollUserCall(before.table, user_ids[n], course_id, due_date, assigned_by)
         IN  IF call.out.code = 200
             THEN [table |-> call.table, successful |-> before.successful + 1,
                   failures |-> before.failures]
             ELSE [table |-> call.table, successful |-> before.successful,
                   failures |-> Append(before.failures,
                                       [user_id |-> user_ids[n], code |-> call.out.code,
                                        error |-> call.out.detail])]

BulkEnrollUsers(user_ids, course_id, due_date, assigned_by) ==
    \E done \in {BulkEnrollLoop(user_ids, Len(user_ids), course_id, due_date, assigned_by)} :
        /\ Len(done.table) <= MaxEnrollments
        /\ enrollments' = done.table
        /\ result' = [op |-> "bulk_enroll_users", code |-> 200, detail |-> "",
                      successful_enrollments |-> done.successful,
                      failed_enrollments |-> Len(done.failures),
                      failures |-> done.failures]
        /\ UNCHANGED <<courses, modules, module_progress, content_progress, quizVars, sessionVars, userVars>>

\* publish_course without the check for modules.
PublishCourseNoModulesCheck(course_id) ==
    IF ~CourseExists(course_id)
    THEN /\ result' = Raise("publish_course", 404, "Course not found")
         /\ UNCHANGED <<courses, modules, enrollments, module_progress, content_progress, quizVars, sessionVars, userVars>>
    ELSE IF courses[course_id].status = "published"
    THEN /\ result' = Raise("publish_course", 400, "Course is already published")
         /\ UNCHANGED <<courses, modules, enrollments, module_progress, content_progress, quizVars, sessionVars, userVars>>
    ELSE /\ courses' = [courses EXCEPT ![course_id].status = "published",
                                       ![course_id].published_at = Now]
         /\ result' = [op |-> "publish_course", code |-> 200, detail |-> "",
                       course_id |-> course_id]
         /\ UNCHANGED <<modules, enrollments, module_progress, content_progress, quizVars, sessionVars, userVars>>

\* publish_course.  The value returned is the course's detail (its id here).
PublishCourse(course_id) ==
    IF ~CourseExists(course_id)
    THEN /\ result' = Raise("publish_course", 404, "Course not found")
         /\ UNCHANGED <<courses, modules, enrollments, module_progress, content_progress, quizVars, sessionVars, userVars>>
    ELSE IF courses[course_id].status = "published"
    THEN /\ result' = Raise("publish_course", 400, "Course is already published")
         /\ UNCHANGED <<courses, modules, enrollments, module_progress, content_progress, quizVars, sessionVars, userVars>>
    ELSE IF CourseModules(modules, course_id) = {}
    THEN /\ result' = Raise("publish_course", 400, "Cannot publish course without modules")
         /\ UNCHANGED <<courses, modules, enrollments, module_progress, content_progress, quizVars, sessionVars, userVars>>
    ELSE /\ courses' = [courses EXCEPT ![course_id].status = "published",
                                       ![course_id].published_at = Now]
         /\ result' = [op |-> "publish_course", code |-> 200, detail |-> "",
                       course_id |-> course_id]
         /\ UNCHANGED <<modules, enrollments, module_progress, content_progress, quizVars, sessionVars, userVars>>

\* delete_course without the check for enrollments.
DeleteCourseNoEnrollmentsCheck(course_id, deleted) ==
    IF ~CourseExists(course_id)
    THEN /\ result' = Raise("delete_course", 404, "Course not found")
         /\ UNCHANGED <<courses, modules, enrollments, module_progress, content_progress,
                        quizVars, sessionVars, userVars>>
    ELSE /\ courses' = IF deleted THEN [courses EXCEPT ![course_id].live = FALSE] ELSE courses
         /\ result' = [op |-> "delete_course", code |-> 200,
                       detail |-> "Course deleted successfully"]
         /\ UNCHANGED <<modules, enrollments, module_progress, content_progress,
                        quizVars, sessionVars, userVars>>

\* delete_course.  course.enrollments is the list of Enrollment rows of the
\* course.  As in delete_module, self.db.delete(course) is not awaited before
\* the commit, and both outcomes are modelled (deleted).  The modules of a
\* deleted course are left as they are.
DeleteCourse(course_id, deleted) ==
    IF ~CourseExists(course_id)
    THEN /\ result' = Raise("delete_course", 404, "Course not found")
         /\ UNCHANGED <<courses, modules, enrollments, module_progress, content_progress,
                        quizVars, sessionVars, userVars>>
    ELSE IF \E i \in 1..Len(enrollments) : enrollments[i].course_id = course_id
    THEN /\ result' = Raise("delete_course", 400,
                            "Cannot delete course with existing enrollments")
         /\ UNCHANGED <<courses, modules, enrollments, module_progress, content_progress,
                        quizVars, sessionVars, userVars>>
    ELSE /\ courses' = IF deleted THEN [courses EXCEPT ![course_id].live = FALSE] ELSE courses
         /\ result' = [op |-> "delete_course", code |-> 200,
                       detail |-> "Course deleted successfully"]
         /\ UNCHANGED <<modules, enrollments, module_progress, content_progress,
                        quizVars, sessionVars, userVars>>

\* ------------------------------------------------------- ModuleService
\* create_module.  order_index 0 asks for the next index of the course.
CreateModule(course_id, order_index) ==
    LET used == {modules[m].order_index : m \in {i \in 1..Len(modules) : modules[i].course_id = course_id /\ modules[i].live}}
        max_order == IF used = {} THEN 0 ELSE CHOOSE x \in used : \A y \in used : y <= x
        index == IF order_index = 0 THEN max_order + 1 ELSE order_index
    IN  IF ~CourseExists(course_id)
        THEN /\ result' = Raise("create_module", 404, "Course not found")
             /\ UNCHANGED <<courses, modules, enrollments, module_progress, content_progress, quizVars, sessionVars, userVars>>
        ELSE /\ Len(modules) < MaxModules
             /\ modules' = Append(modules, [course_id |-> course_id, order_index |-> index, live |-> TRUE])
             /\ result' = [op |-> "create_module", code |-> 200, detail |-> "",
                           module_id |-> Len(modules) + 1]
             /\ UNCHANGED <<courses, enrollments, module_progress, content_progress, quizVars, sessionVars, userVars>>

\* delete_module.  The method calls self.db.delete(module) without awaiting
\* it and then commits: under the AsyncSession that get_session yields the
\* un-awaited call deletes nothing, under the Session the service is
\* annotated with it deletes the row.  Both outcomes are modelled (deleted).
\* Rows of module_progress that name the module are left as they are.
DeleteModule(module_id, deleted) ==
    IF ~(module_id \in 1..Len(modules) /\ modules[module_id].live)
    THEN /\ result' = Raise("delete_module", 404, "Module not found")
         /\ UNCHANGED <<courses, modules, enrollments, module_progress, content_progress, quizVars, sessionVars, userVars>>
    ELSE /\ modules' = IF deleted THEN [modules EXCEPT ![module_id].live = FALSE] ELSE modules
         /\ result' = [op |-> "delete_module", code |-> 200,
                       detail |-> "Module deleted successfully"]
         /\ UNCHANGED <<courses, enrollments, module_progress, content_progress, quizVars, sessionVars, userVars>>

\* ------------------------------------------------------ ProgressService
\* A look-up that takes the user's first enrollment, in whatever course.
FindEnrollmentAnyCourse(enrs, user_id, course_id) ==
    First(enrs, LAMBDA r : r.user_id = user_id)

\* select(Enrollment) of one user and one course, .first(); 0 when there is none.
FindEnrollment(enrs, user_id, course_id) ==
    First(enrs, LAMBDA r : r.user_id = user_id /\ r.course_id = course_id)

\* A look-up that never finds the row.
FindModuleProgressNever(mps, enrollment_id, module_id) == 0

\* select(ModuleProgress) of one enrollment and one module, .first().
FindModuleProgress(mps, enrollment_id, module_id) ==
    First(mps, LAMBDA r : r.enrollment_id = enrollment_id /\ r.module_id = module_id)

\* select(ContentProgress) of one module progress and one content type, .first().
FindContentProgress(cps, module_progress_id, content_type) ==
    First(cps, LAMBDA r : r.module_progress_id = module_progress_id
                            /\ r.content_type = content_type)

\* A time_spent that is replaced by the increment.
AddTimeSpentOverwrites(time_spent, increment) == increment

\* content_progress.time_spent += progress_data.time_spent or 0
AddTimeSpent(time_spent, increment) == time_spent + increment

\* update_content_progress ("record content progress"), roll-ups included.
UpdateContentProgress(user_id, course_id, module_id, content_type, status, percentage, time_spent) ==
    \E e \in {FindEnrollment(enrollments, user_id, course_id)} :
    IF e = 0
    THEN /\ result' = Raise("update_content_progress", 404, "User not enrolled in this course")
         /\ UNCHANGED <<courses, modules, enrollments, module_progress, content_progress, quizVars, sessionVars, userVars>>
    ELSE
    \* Get or create ModuleProgress
    \E found_mp \in {FindModuleProgress(module_progress, e, module_id)} :
    \E mps1 \in {IF found_mp = 0
                 THEN Append(module_progress,
                             [enrollment_id |-> e, module_id |-> module_id, user_id |-> user_id,
                              status |-> "in_progress", started_at |-> Now,
                              completed_at |-> NULL, time_spent |-> 0])
                 ELSE module_progress} :
    \E mp \in {IF found_mp = 0 THEN Len(mps1) ELSE found_mp} :
    \* Update ContentProgress
    \E found_cp \in {FindContentProgress(content_progress, mp, content_type)} :
    \E increment \in {IF time_spent = Absent THEN 0 ELSE time_spent} :
    \E cps1 \in {IF found_cp = 0
                 THEN Append(content_progress,
                             [module_progress_id |-> mp, content_type |-> content_type,
                              status |-> status, progress_percentage |-> percentage,
                              time_spent |-> increment, last_accessed |-> Now])
                 ELSE [content_progress EXCEPT ![found_cp].status = status,
                                               ![found_cp].progress_percentage = percentage,
                                               ![found_cp].time_spent = AddTimeSpent(@, increment),
                                               ![found_cp].last_accessed = Now]} :
    \E cp \in {IF found_cp = 0 THEN Len(cps1) ELSE found_cp} :
        /\ content_progress' = cps1
        \* Update module progress based on content progress
        /\ module_progress' = UpdateModuleProgressStatus(mps1, cps1, mp)
        /\ enrollments' = UpdateEnrollmentProgressStatus(enrollments, module_progress', modules, e)
        /\ result' = [op |-> "update_content_progress", code |-> 200, detail |-> "",
                      enrollment_id |-> e, module_progress_id |-> mp,
                      content_progress_id |-> cp,
                      created_module_progress |-> (found_mp = 0),
                      created_content_progress |-> (found_cp = 0)]
        /\ UNCHANGED <<courses, modules, quizVars, sessionVars, userVars>>

\* update_content_progress as the requests of several clients run it.  Every
\* request has its own session (expire_on_commit=False): an object it has
\* loaded keeps the values it was loaded with, a commit writes the attributes
\* whose value differs from the loaded one, and what other requests committed
\* is seen by the request's next select.
WriteChanged(row, loaded, computed, fields) ==
    [f \in DOMAIN row |-> IF f \in fields /\ computed[f] # loaded[f] THEN computed[f] ELSE row[f]]

\* The three selects of update_content_progress (no row of these tables is
\* deleted, and the request's own uncommitted ModuleProgress has no content).
UpdateContentProgressSelects(user_id, course_id, module_id, content_type, status, percentage, time_spent) ==
    /\ Len(calls) < MaxProgressCalls
    /\ \E e \in {FindEnrollment(enrollments, user_id, course_id)} :
       IF e = 0
       THEN /\ result' = Raise("update_content_progress", 404,
                               "User not enrolled in this course")
            /\ UNCHANGED calls
       ELSE \E mp \in {FindModuleProgress(module_progress, e, module_id)} :
            \E cp \in {IF mp = 0 THEN 0
                       ELSE FindContentProgress(content_progress, mp, content_type)} :
            /\ calls' = Append(calls,
                   [op |-> "update_content_progress", pc |-> "commit",
                    content_type |-> content_type, status |-> status,
                    progress_percentage |-> percentage,
                    increment |-> IF time_spent = Absent THEN 0 ELSE time_spent,
                    enrollment_id |-> e, module_progress_id |-> mp,
                    content_progress_id |-> cp,
                    enrollment |-> enrollments[e],
                    computed_enrollment |-> enrollments[e],
                    computed_module_progress |->
                        IF mp = 0
                        THEN [enrollment_id |-> e, module_id |-> module_id,
                              user_id |-> user_id, status |-> "in_progress",
                              started_at |-> Now, completed_at |-> NULL, time_spent |-> 0]
                        ELSE module_progress[mp],
                    module_progress |->
                        IF mp = 0
                        THEN [enrollment_id |-> e, module_id |-> module_id,
                              user_id |-> user_id, status |-> "in_progress",
                              started_at |-> Now, completed_at |-> NULL, time_spent |-> 0]
                        ELSE module_progress[mp],
                    content_progress |->
                        IF cp = 0
                        THEN [module_progress_id |-> mp, content_type |-> content_type,
                              status |-> status, progress_percentage |-> percentage,
                              time_spent |-> IF time_spent = Absent THEN 0 ELSE time_spent,
                              last_accessed |-> Now]
                        ELSE content_progress[cp]])
            /\ result' = [op |-> "update_content_progress", code |-> 0,
                          detail |-> "selects done", call |-> Len(calls) + 1]
    /\ UNCHANGED <<courses, modules, enrollments, module_progress, content_progress,
                   quizVars, issued, clock, userVars>>

\* self.db.add(content_progress); await self.db.commit(): the new
\* ModuleProgress and ContentProgress are inserted, a loaded ContentProgress
\* is updated from the values it was loaded with.
UpdateContentProgressCommit(r) ==
    /\ calls[r].op = "update_content_progress" /\ calls[r].pc = "commit"
    /\ \E mp \in {IF calls[r].module_progress_id = 0 THEN Len(module_progress) + 1
                  ELSE calls[r].module_progress_id} :
       \E cp \in {IF calls[r].content_progress_id = 0 THEN Len(content_progress) + 1
                  ELSE calls[r].content_progress_id} :
        /\ module_progress' = IF calls[r].module_progress_id = 0
                              THEN Append(module_progress, calls[r].module_progress)
                              ELSE module_progress
        /\ content_progress' =
                IF calls[r].content_progress_id = 0
                THEN Append(content_progress,
                            [calls[r].content_progress EXCEPT !.module_progress_id = mp])
                ELSE [content_progress EXCEPT ![cp] =
                        WriteChanged(@, calls[r].content_progress,
                            [calls[r].content_progress EXCEPT
                                !.status = calls[r].status,
                                !.progress_percentage = calls[r].progress_percentage,
                                !.time_spent = AddTimeSpent(@, calls[r].increment),
                                !.last_accessed = Now],
                            {"status", "progress_percentage", "time_spent", "last_accessed"})]
        /\ calls' = [calls EXCEPT ![r].pc = "module_selects",
                                  ![r].module_progress_id = mp,
                                  ![r].content_progress_id = cp]
        /\ result' = [op |-> "update_content_progress", code |-> 0,
                      detail |-> "content committed", call |-> r]
    /\ UNCHANGED <<courses, modules, enrollments, quizVars, issued, clock, userVars>>

\* _update_module_progress_status up to its commit: the status worked out from
\* the ContentProgress rows as they are read (the request's own row is read
\* anew by the refresh that precedes).
UpdateModuleProgressStatusSelects(r) ==
    /\ calls[r].op = "update_content_progress" /\ calls[r].pc = "module_selects"
    /\ calls' = [calls EXCEPT
            ![r].pc = "module_commit",
            ![r].computed_module_progress =
                UpdateModuleProgressStatus(
                    [module_progress EXCEPT ![calls[r].module_progress_id] = calls[r].module_progress],
                    content_progress, calls[r].module_progress_id)[calls[r].module_progress_id]]
    /\ result' = [op |-> "update_content_progress", code |-> 0,
                  detail |-> "module selects done", call |-> r]
    /\ UNCHANGED <<courses, modules, enrollments, module_progress, content_progress,
                   quizVars, issued, clock, userVars>>

\* A roll-up that works the status out again from the rows at its commit.
ModuleProgressRecomputed(call, mps, cps) ==
    UpdateModuleProgressStatus(mps, cps, call.module_progress_id)[call.module_progress_id]

\* module_progress as the request holds it when it commits the roll-up.
ModuleProgressToWrite(call, mps, cps) == call.computed_module_progress

\* self.db.add(module_progress); await self.db.commit() of the roll-up.
UpdateModuleProgressStatusCommit(r) ==
    /\ calls[r].op = "update_content_progress" /\ calls[r].pc = "module_commit"
    /\ module_progress' = [module_progress EXCEPT ![calls[r].module_progress_id] =
            WriteChanged(@, calls[r].module_progress,
                         ModuleProgressToWrite(calls[r], module_progress, content_progress),
                         {"status", "completed_at"})]
    /\ calls' = [calls EXCEPT ![r].pc = "enrollment_selects"]
    /\ result' = [op |-> "update_content_progress", code |-> 0,
                  detail |-> "module committed", call |-> r]
    /\ UNCHANGED <<courses, modules, enrollments, content_progress, quizVars, issued, clock, userVars>>

\* An enrollment roll-up that is skipped when the request's module roll-up
\* left the module's status as it was loaded.
UpdateEnrollmentProgressStatusSelectsIfModuleChanged(r) ==
    /\ calls[r].op = "update_content_progress" /\ calls[r].pc = "enrollment_selects"
    /\ calls' = [calls EXCEPT
            ![r].pc = "enrollment_commit",
            ![r].computed_enrollment =
                IF calls[r].computed_module_progress.status = calls[r].module_progress.status
                THEN calls[r].enrollment
                ELSE UpdateEnrollmentProgressStatus(
                        [enrollments EXCEPT ![calls[r].enrollment_id] = calls[r].enrollment],
                        module_progress, modules, calls[r].enrollment_id)[calls[r].enrollment_id]]
    /\ result' = [op |-> "update_content_progress", code |-> 0,
                  detail |-> "enrollment selects done", call |-> r]
    /\ UNCHANGED <<courses, modules, enrollments, module_progress, content_progress,
                   quizVars, issued, clock, userVars>>

\* _update_enrollment_progress_status up to its commit: the count of completed
\* ModuleProgress rows as it is read.
UpdateEnrollmentProgressStatusSelects(r) ==
    /\ calls[r].op = "update_content_progress" /\ calls[r].pc = "enrollment_selects"
    /\ calls' = [calls EXCEPT
            ![r].pc = "enrollment_commit",
            ![r].computed_enrollment =
                UpdateEnrollmentProgressStatus(
                    [enrollments EXCEPT ![calls[r].enrollment_id] = calls[r].enrollment],
                    module_progress, modules, calls[r].enrollment_id)[calls[r].enrollment_id]]
    /\ result' = [op |-> "update_content_progress", code |-> 0,
                  detail |-> "enrollment selects done", call |-> r]
    /\ UNCHANGED <<courses, modules, enrollments, module_progress, content_progress,
                   quizVars, issued, clock, userVars>>

\* An enrollment roll-up that issues a completion certificate when it stores
\* the status completed.
UpdateEnrollmentProgressStatusCommitCertifies(r) ==
    /\ calls[r].op = "update_content_progress" /\ calls[r].pc = "enrollment_commit"
    /\ enrollments' = [enrollments EXCEPT ![calls[r].enrollment_id] =
            WriteChanged(@, calls[r].enrollment, calls[r].computed_enrollment,
                         {"progress_percentage", "status", "completed_at"})]
    /\ certificates' = IF calls[r].computed_enrollment.status = "completed"
                       THEN Append(certificates,
                                [user_id |-> calls[r].enrollment.user_id,
                                 course_id |-> calls[r].enrollment.course_id,
                                 issued_at |-> Now, is_valid |-> TRUE])
                       ELSE certificates
    /\ calls' = [calls EXCEPT ![r].pc = "done"]
    /\ result' = [op |-> "update_content_progress", code |-> 200, detail |-> "", call |-> r]
    /\ UNCHANGED <<courses, modules, module_progress, content_progress,
                   quizVars, issued, clock, users>>

\* self.db.add(enrollment); await self.db.commit() of the roll-up, and the
\* return of update_content_progress.
UpdateEnrollmentProgressStatusCommit(r) ==
    /\ calls[r].op = "update_content_progress" /\ calls[r].pc = "enrollment_commit"
    /\ enrollments' = [enrollments EXCEPT ![calls[r].enrollment_id] =
            WriteChanged(@, calls[r].enrollment, calls[r].computed_enrollment,
                         {"progress_percentage", "status", "completed_at"})]
    /\ calls' = [calls EXCEPT ![r].pc = "done"]
    /\ result' = [op |-> "update_content_progress", code |-> 200, detail |-> "", call |-> r]
    /\ UNCHANGED <<courses, modules, module_progress, content_progress,
                   quizVars, issued, clock, userVars>>

\* An await of update_content_progress after the ContentProgress commit
\* raises (refresh, a select or a commit of the roll-ups): the method has no
\* try/except and no rollback of what is committed, the request ends in 500.
UpdateContentProgressFails(r) ==
    /\ calls[r].op = "update_content_progress"
    /\ calls[r].pc \in {"module_selects", "module_commit", "enrollment_selects", "enrollment_commit"}
    /\ calls' = [calls EXCEPT ![r].pc = "failed"]
    /\ result' = [op |-> "update_content_progress", code |-> 500,
                  detail |-> "Internal Server Error", call |-> r]
    /\ UNCHANGED <<courses, modules, enrollments, module_progress, content_progress,
                   quizVars, issued, clock, userVars>>

\* The read with the share of completed modules taken by integer division.
GetUserProgressForCourseFloorDivision(user_id, course_id) ==
    LET e == FindEnrollment(enrollments, user_id, course_id)
        total_modules == Cardinality(CourseModules(modules, course_id))
        completed_modules == CompletedModulesCount(module_progress, e)
    IN  /\ result' =
            IF e = 0
            THEN Raise("get_user_progress_for_course", 404, "User not enrolled in this course")
            ELSE [op |-> "get_user_progress_for_course", code |-> 200, detail |-> "",
                  enrollment_id |-> e,
                  enrollment_status |-> enrollments[e].status,
                  progress_percentage |-> IF total_modules > 0
                                          THEN <<(completed_modules \div total_modules) * 100, 1>>
                                          ELSE <<0, 1>>,
                  completed_at |-> enrollments[e].completed_at,
                  total_modules |-> total_modules,
                  completed_modules |-> completed_modules]
        /\ UNCHANGED <<courses, modules, enrollments, module_progress, content_progress, quizVars, sessionVars, userVars>>

\* get_user_progress_for_course: a read; the view it returns.
GetUserProgressForCourse(user_id, course_id) ==
    LET e == FindEnrollment(enrollments, user_id, course_id)
        total_modules == Cardinality(CourseModules(modules, course_id))
        completed_modules == CompletedModulesCount(module_progress, e)
    IN  /\ result' =
            IF e = 0
            THEN Raise("get_user_progress_for_course", 404, "User not enrolled in this course")
            ELSE IF ~CourseExists(course_id)
            THEN Raise("get_user_progress_for_course", 404, "Course not found")
            ELSE [op |-> "get_user_progress_for_course", code |-> 200, detail |-> "",
                  enrollment_id |-> e,
                  enrollment_status |-> enrollments[e].status,
                  progress_percentage |-> IF total_modules > 0
                                          THEN Ratio(completed_modules * 100, total_modules)
                                          ELSE <<0, 1>>,
                  completed_at |-> enrollments[e].completed_at,
                  total_modules |-> total_modules,
                  completed_modules |-> completed_modules]
        /\ UNCHANGED <<courses, modules, enrollments, module_progress, content_progress, quizVars, sessionVars, userVars>>

\* get_user_course_progress: a read; one view per enrollment of the user whose
\* course is found, keyed here by the enrollment's id (page 1 holds them all).
GetUserCourseProgress(user_id) ==
    /\ result' =
        IF user_id \notin DOMAIN users
        THEN Raise("get_user_course_progress", 404, "User not found")
        ELSE [op |-> "get_user_course_progress", code |-> 200, detail |-> "",
              items |->
                [e \in {i \in 1..Len(enrollments) :
                            enrollments[i].user_id = user_id
                                /\ CourseExists(enrollments[i].course_id)} |->
                    LET total_modules ==
                            Cardinality(CourseModules(modules, enrollments[e].course_id))
                        completed_modules == CompletedModulesCount(module_progress, e)
                    IN  [enrollment_id |-> e,
                         enrollment_status |-> enrollments[e].status,
                         progress_percentage |-> IF total_modules > 0
                                                 THEN Ratio(completed_modules * 100, total_modules)
                                                 ELSE <<0, 1>>,
                         completed_at |-> enrollments[e].completed_at,
                         total_modules |-> total_modules,
                         completed_modules |-> completed_modules]]]
    /\ UNCHANGED <<courses, modules, enrollments, module_progress, content_progress, quizVars, sessionVars, userVars>>

\* ---------------------------------------------------------- QuizService
\* str.strip() on a string of characters: leading and trailing blanks removed.
RECURSIVE Strip(_)
Strip(t) ==
    IF t = <<>> THEN t
    ELSE IF Head(t) = " " THEN Strip(Tail(t))
    ELSE IF t[Len(t)] = " " THEN Strip(SubSeq(t, 1, Len(t) - 1))
    ELSE t

\* Crediting short-answer and essay text that is merely non-empty.
TextIsAnsweredUnstripped(text) == text # NoText /\ text # <<>>

\* response_data.text_response and response_data.text_response.strip()
TextIsAnswered(text) == text # NoText /\ text # <<>> /\ Strip(text) # <<>>

\* The loop over attempt_data.responses: points earned and quiz_response rows
\* added by the first n responses.  A response whose question is not found is
\* skipped; the question and the option are looked up by id alone.  The row is
\* built with selected_option_id, which is no column of QuizResponse, so its
\* question_option_id stays None.
RECURSIVE GradeResponses(_, _, _)
GradeResponses(responses, n, attempt_id) ==
    IF n = 0
    THEN [earned_points |-> 0, rows |-> <<>>]
    ELSE LET before == GradeResponses(responses, n - 1, attempt_id)
             response_data == responses[n]
         IN  IF response_data.question_id \notin 1..Len(questions)
             THEN before
             ELSE LET question == questions[response_data.question_id]
                      is_correct ==
                          IF question.question_type \in {"multiple_choice", "true_false"}
                          THEN /\ response_data.selected_option_id # NoId
                               /\ response_data.selected_option_id \in 1..Len(question_options)
                               /\ question_options[response_data.selected_option_id].is_correct
                          ELSE /\ question.question_type \in {"short_answer", "essay"}
                               /\ TextIsAnswered(response_data.text_response)
                      points_earned == IF is_correct THEN question.points ELSE 0
                  IN  [earned_points |-> before.earned_points + points_earned,
                       rows |-> Append(before.rows,
                                    [attempt_id |-> attempt_id,
                                     question_id |-> response_data.question_id,
                                     question_option_id |-> NoId,
                                     text_response |-> response_data.text_response,
                                     is_correct |-> is_correct,
                                     points_earned |-> points_earned])]

\* sum(q.points for q in quiz.questions)
RECURSIVE QuizTotalPoints(_, _)
QuizTotalPoints(quiz_id, n) ==
    IF n = 0 THEN 0
    ELSE QuizTotalPoints(quiz_id, n - 1)
            + IF questions[n].quiz_id = quiz_id THEN questions[n].points ELSE 0

\* A count that leaves out the attempts that did not pass.
UserAttemptsCountPassedOnly(attempts, quiz_id, user_id) ==
    Cardinality({i \in 1..Len(attempts) :
        attempts[i].quiz_id = quiz_id /\ attempts[i].user_id = user_id /\ attempts[i].is_passed})

\* select(func.count(QuizAttempt.id)) of one quiz and one user.
UserAttemptsCount(attempts, quiz_id, user_id) ==
    Cardinality({i \in 1..Len(attempts) :
        attempts[i].quiz_id = quiz_id /\ attempts[i].user_id = user_id})

\* The score as the points earned, not as a share of the total.
ScoreAsPoints(earned_points, total_points) == <<earned_points, 1>>

\* new_attempt.score
Score(earned_points, total_points) ==
    IF total_points > 0 THEN Ratio(earned_points * 100, total_points) ELSE <<0, 1>>

\* new_attempt.is_passed
IsPassed(score, passing_score) == score[1] >= passing_score * score[2]

\* submit_quiz_attempt.  self.db.flush() is called without being awaited, so
\* it is the query for the first response's question that flushes the added
\* attempt (autoflush) and gives it its id before any response row is built.
\* The result is the attempt the call returns, with the submission it answered.
SubmitQuizAttempt(quiz_id, user_id, responses) ==
    IF quiz_id \notin DOMAIN quizzes
    THEN /\ result' = Raise("submit_quiz_attempt", 404, "Quiz not found")
         /\ UNCHANGED <<courses, modules, enrollments, module_progress, content_progress, quizVars, sessionVars, userVars>>
    ELSE
    \* Check if user can attempt
    \E user_attempts_count \in {UserAttemptsCount(quiz_attempts, quiz_id, user_id)} :
    IF user_attempts_count >= quizzes[quiz_id].max_attempts
    THEN /\ result' = Raise("submit_quiz_attempt", 400, "Maximum attempts reached")
         /\ UNCHANGED <<courses, modules, enrollments, module_progress, content_progress, quizVars, sessionVars, userVars>>
    ELSE
    \E new_attempt \in {Len(quiz_attempts) + 1} :
    \E total_points \in {QuizTotalPoints(quiz_id, Len(questions))} :
    \E graded \in {GradeResponses(responses, Len(responses), new_attempt)} :
    \E score \in {Score(graded.earned_points, total_points)} :
        /\ new_attempt <= MaxQuizAttempts
        /\ quiz_attempts' = Append(quiz_attempts,
                [quiz_id |-> quiz_id, user_id |-> user_id,
                 started_at |-> Now, completed_at |-> Now,
                 attempt_number |-> user_attempts_count + 1,
                 total_points |-> total_points,
                 earned_points |-> graded.earned_points,
                 score |-> score,
                 is_passed |-> IsPassed(score, quizzes[quiz_id].passing_score)])
        /\ quiz_responses' = quiz_responses \o graded.rows
        /\ result' = [op |-> "submit_quiz_attempt", code |-> 200, detail |-> "",
                      attempt_id |-> new_attempt, quiz_id |-> quiz_id,
                      user_id |-> user_id, responses |-> responses]
        /\ UNCHANGED <<courses, modules, enrollments, module_progress, content_progress,
                       quizzes, questions, question_options, sessionVars, userVars>>

\* submit_quiz_attempt as the requests of several clients run it.  The quiz
\* and the count of the user's attempts are read first; the attempt, flushed
\* inside the request's own transaction at the earliest, is seen by the other
\* requests from `await self.db.commit()` on.
SubmitQuizAttemptCount(quiz_id, user_id, responses) ==
    /\ Len(calls) < MaxCalls
    /\ IF quiz_id \notin DOMAIN quizzes
       THEN /\ result' = Raise("submit_quiz_attempt", 404, "Quiz not found")
            /\ UNCHANGED calls
       ELSE \E user_attempts_count \in {UserAttemptsCount(quiz_attempts, quiz_id, user_id)} :
            IF user_attempts_count >= quizzes[quiz_id].max_attempts
            THEN /\ result' = Raise("submit_quiz_attempt", 400, "Maximum attempts reached")
                 /\ UNCHANGED calls
            ELSE /\ calls' = Append(calls,
                        [op |-> "submit_quiz_attempt", pc |-> "commit",
                         quiz_id |-> quiz_id, user_id |-> user_id, responses |-> responses,
                         user_attempts_count |-> user_attempts_count,
                         passing_score |-> quizzes[quiz_id].passing_score])
                 /\ result' = [op |-> "submit_quiz_attempt", code |-> 0,
                               detail |-> "count done", call |-> Len(calls) + 1]
    /\ UNCHANGED <<courses, modules, enrollments, module_progress, content_progress,
                   quizVars, issued, clock, userVars>>

\* An attempt number taken from a count made again when the row is written.
AttemptNumberRecounted(attempts, call) ==
    UserAttemptsCount(attempts, call.quiz_id, call.user_id) + 1

\* attempt_number=user_attempts_count + 1, from the count the request read.
AttemptNumber(attempts, call) == call.user_attempts_count + 1

SubmitQuizAttemptCommit(r) ==
    /\ calls[r].op = "submit_quiz_attempt" /\ calls[r].pc = "commit"
    /\ \E new_attempt \in {Len(quiz_attempts) + 1} :
       \E total_points \in {QuizTotalPoints(calls[r].quiz_id, Len(questions))} :
       \E graded \in {GradeResponses(calls[r].responses, Len(calls[r].responses), new_attempt)} :
       \E score \in {Score(graded.earned_points, total_points)} :
        /\ quiz_attempts' = Append(quiz_attempts,
                [quiz_id |-> calls[r].quiz_id, user_id |-> calls[r].user_id,
                 started_at |-> Now, completed_at |-> Now,
                 attempt_number |-> AttemptNumber(quiz_attempts, calls[r]),
                 total_points |-> total_points,
                 earned_points |-> graded.earned_points,
                 score |-> score,
                 is_passed |-> IsPassed(score, calls[r].passing_score)])
        /\ quiz_responses' = quiz_responses \o graded.rows
        /\ result' = [op |-> "submit_quiz_attempt", code |-> 200, detail |-> "",
                      call |-> r, attempt_id |-> new_attempt]
    /\ calls' = [calls EXCEPT ![r].pc = "done"]
    /\ UNCHANGED <<courses, modules, enrollments, module_progress, content_progress,
                   quizzes, questions, question_options, issued, clock, userVars>>

\* update_quiz, for the two settings submit_quiz_attempt reads; a field that
\* is None (Absent) is left as it is.
UpdateQuiz(quiz_id, max_attempts, passing_score) ==
    IF quiz_id \notin DOMAIN quizzes
    THEN /\ result' = Raise("update_quiz", 404, "Quiz not found")
         /\ UNCHANGED <<courses, modules, enrollments, module_progress, content_progress, quizVars, sessionVars, userVars>>
    ELSE /\ quizzes' = [quizzes EXCEPT
                ![quiz_id].max_attempts = IF max_attempts # Absent THEN max_attempts ELSE @,
                ![quiz_id].passing_score = IF passing_score # Absent THEN passing_score ELSE @]
         /\ result' = [op |-> "update_quiz", code |-> 200, detail |-> "", quiz_id |-> quiz_id]
         /\ UNCHANGED <<courses, modules, enrollments, module_progress, content_progress,
                        questions, question_options, quiz_attempts, quiz_responses,
                        sessionVars, userVars>>

\* ------------------------------------------------------------- security
\* A JWT is its payload and the key it was signed with.
Encode(payload, key) == [payload |-> payload, signature |-> key]

\* create_access_token: the data and an expiry, signed with the secret key.
CreateAccessToken(data, now) ==
    Encode([exp |-> now + AccessTokenExpire] @@ data, SecretKey)

\* create_refresh_token: the data and a later expiry, signed with the same key.
CreateRefreshToken(data, now) ==
    Encode([exp |-> now + RefreshTokenExpire] @@ data, SecretKey)

\* decode_token / verify_token: the payload, or None when the signature does
\* not verify or the token has expired.
DecodeToken(token, now) ==
    IF token.signature = SecretKey /\ token.payload.exp > now
    THEN token.payload
    ELSE NoPayload

\* token_data.get("refresh") taken as a condition.
GetRefresh(token_data) == "refresh" \in DOMAIN token_data /\ token_data.refresh

\* AccessTokenBearer.__call__ on a bearer token: the payload it returns, or
\* the HTTP error it raises.
AccessTokenBearer(op, token, now) ==
    LET token_data == DecodeToken(token, now) IN
    IF token_data = NoPayload
    THEN Raise(op, 401, "Invalid or expired token") @@ [token |-> token]
    ELSE IF GetRefresh(token_data)
    THEN Raise(op, 401, "Access token required") @@ [token |-> token]
    ELSE [op |-> op, code |-> 200, detail |-> "", token |-> token]

\* ---------------------------------------------------------- AuthService
\* login_user: 401 for an unknown email or a wrong password, 401 for a user
\* whose is_active is false, and otherwise an access and a refresh token.
LoginUser(email, password_ok) ==
    IF email \notin DOMAIN users \/ ~password_ok
    THEN /\ result' = Raise("login_user", 401, "Invalid email or password")
         /\ UNCHANGED <<courses, modules, enrollments, module_progress, content_progress,
                        quizVars, sessionVars, userVars>>
    ELSE IF ~users[email].is_active
    THEN /\ result' = Raise("login_user", 401, "Account is deactivated")
         /\ UNCHANGED <<courses, modules, enrollments, module_progress, content_progress,
                        quizVars, sessionVars, userVars>>
    ELSE \E access_token \in {CreateAccessToken([sub |-> email, email |-> email], clock)},
            refresh_token \in {CreateRefreshToken([sub |-> email], clock)} :
         /\ issued' = issued \cup {[field |-> "access_token", token |-> access_token],
                                   [field |-> "refresh_token", token |-> refresh_token]}
         /\ result' = [op |-> "login_user", code |-> 200, detail |-> "",
                       access_token |-> access_token, refresh_token |-> refresh_token]
         /\ UNCHANGED <<courses, modules, enrollments, module_progress, content_progress,
                        quizVars, clock, calls, userVars>>

\* refresh_token: the user look-up is not awaited, so .first() is called on a
\* coroutine and the handler ends in an AttributeError before any token is made.
RefreshToken(refresh_token) ==
    /\ result' = IF DecodeToken(refresh_token, clock) = NoPayload
                 THEN Raise("refresh_token", 401, "Invalid refresh token")
                 ELSE Raise("refresh_token", 500, "AttributeError")
    /\ UNCHANGED <<courses, modules, enrollments, module_progress, content_progress,
                   quizVars, sessionVars, userVars>>

\* POST /auth/logout, guarded by access_token_bearer and nothing else.
LogoutUser(token) ==
    /\ result' = AccessTokenBearer("logout_user", token, clock)
    /\ UNCHANGED <<courses, modules, enrollments, module_progress, content_progress,
                   quizVars, sessionVars, userVars>>

\* ---------------------------------------------------------- UserService
\* create_user: 400 when the email is registered, else a User row with the
\* is_active of the request.
CreateUser(email, is_active) ==
    IF email \in DOMAIN users
    THEN /\ result' = Raise("create_user", 400, "Email already registered")
         /\ UNCHANGED <<courses, modules, enrollments, module_progress, content_progress,
                        quizVars, sessionVars, userVars>>
    ELSE /\ users' = users @@ (email :> [is_active |-> is_active])
         /\ result' = [op |-> "create_user", code |-> 200, detail |-> "", user_id |-> email]
         /\ UNCHANGED <<courses, modules, enrollments, module_progress, content_progress,
                        quizVars, sessionVars, certificates>>

\* update_user: first_name, last_name, phone and avatar_url are the only
\* attributes it assigns.
UpdateUser(user_id) ==
    /\ result' = IF user_id \notin DOMAIN users
                 THEN Raise("update_user", 404, "User not found")
                 ELSE [op |-> "update_user", code |-> 200, detail |-> "", user_id |-> user_id]
    /\ UNCHANGED <<courses, modules, enrollments, module_progress, content_progress,
                   quizVars, sessionVars, userVars>>

\* deactivate_user: a plain def that calls self.db.exec(...) of the
\* AsyncSession without await, so .first() is called on a coroutine and the
\* handler ends in an AttributeError before is_active is assigned.
DeactivateUser(user_id) ==
    /\ result' = Raise("deactivate_user", 500, "AttributeError")
    /\ UNCHANGED <<courses, modules, enrollments, module_progress, content_progress,
                   quizVars, sessionVars, userVars>>

\* ---------------------------------------------------- CertificateService
\* create_certificate: 404 for an unknown user, 404 for a course_id that names
\* no course, else a Certificate row; course_id may be None, and neither an
\* enrollment nor its completion is looked at.
CreateCertificate(user_id, course_id) ==
    IF user_id \notin DOMAIN users
    THEN /\ result' = Raise("create_certificate", 404, "User not found")
         /\ UNCHANGED <<courses, modules, enrollments, module_progress, content_progress,
                        quizVars, sessionVars, userVars>>
    ELSE IF course_id # NULL /\ ~CourseExists(course_id)
    THEN /\ result' = Raise("create_certificate", 404, "Course not found")
         /\ UNCHANGED <<courses, modules, enrollments, module_progress, content_progress,
                        quizVars, sessionVars, userVars>>
    ELSE /\ Len(certificates) < MaxCertificates
         /\ certificates' = Append(certificates,
                [user_id |-> user_id, course_id |-> course_id,
                 issued_at |-> Now, is_valid |-> TRUE])
         /\ result' = [op |-> "create_certificate", code |-> 200, detail |-> "",
                       certificate_id |-> Len(certificates) + 1]
         /\ UNCHANGED <<courses, modules, enrollments, module_progress, content_progress,
                        quizVars, sessionVars, users>>

\* Time passes on the server.
Tick ==
    /\ clock < MaxClock
    /\ clock' = clock + 1
    /\ result' = [op |-> "tick", code |-> 0, detail |-> ""]
    /\ UNCHANGED <<courses, modules, enrollments, module_progress, content_progress,
                   quizVars, issued, calls, userVars>>

\* ------------------------------------------------------ specifications
\* Progress roll-up: one learner enrolled in c1, modules created in and deleted
\* from either course, progress recorded against any module ever created.
Next ==
    \/ EnrollUser("u1", "c1", NULL, NULL)
    \/ \E c \in Courses : CreateModule(c, 0)
    \/ \E m \in 1..Len(modules), d \in BOOLEAN : DeleteModule(m, d)
    \/ \E c \in Courses, m \in 1..Len(modules), t \in ContentTypes, s \in ProgressStatus :
            /\ UpdateContentProgress("u1", c, m, t, s, 100, Absent)
            /\ Len(module_progress') <= MaxModuleProgress
            /\ Len(content_progress') <= MaxContentProgress

Spec == Init /\ [][Next]_vars

\* Enrollment: single and bulk enrollment of any user in any course.
NextEnroll ==
    \/ \E u \in Users \cup {NoUser}, c \in Courses \cup {NoCourse},
          d \in DueDates, a \in Assigners : EnrollUser(u, c, d, a)
    \/ \E ids \in BulkLists, c \in Courses \cup {NoCourse}, d \in DueDates, a \in Assigners :
            BulkEnrollUsers(ids, c, d, a)

SpecEnroll == Init /\ [][NextEnroll]_vars

\* Publishing: modules created in and deleted from any course, any course
\* published.
NextCourse ==
    \/ \E c \in Courses \cup {NoCourse}, o \in OrderIndexes : CreateModule(c, o)
    \/ \E m \in 0..Len(modules), d \in BOOLEAN : DeleteModule(m, d)
    \/ \E c \in Courses \cup {NoCourse} : PublishCourse(c)

SpecCourse == Init /\ [][NextCourse]_vars

\* Two quizzes after create_quiz and, for q1, two add_question_to_quiz calls:
\* q1 has a multiple-choice question worth 1 point, with a correct option (1)
\* and a wrong one (2), and a short-answer question worth 2 points; q2 has no
\* question.  An option's question_id is read by none of the methods here.
QuizQuestions ==
    <<[quiz_id |-> "q1", question_type |-> "multiple_choice", points |-> 1],
      [quiz_id |-> "q1", question_type |-> "short_answer", points |-> 2]>>
QuizOptions == <<[is_correct |-> TRUE], [is_correct |-> FALSE]>>

InitQuiz ==
    /\ courses = [c \in Courses |-> [status |-> "draft", published_at |-> NULL, live |-> TRUE]]
    /\ modules = <<>>
    /\ enrollments = <<>>
    /\ module_progress = <<>>
    /\ content_progress = <<>>
    /\ quizzes \in [Quizzes -> [max_attempts : {DefaultMaxAttempts}, passing_score : PassingScores]]
    /\ questions = QuizQuestions
    /\ question_options = QuizOptions
    /\ quiz_attempts = <<>>
    /\ quiz_responses = <<>>
    /\ issued = {}
    /\ clock = 0
    /\ users = [u \in Users |-> [is_active |-> TRUE]]
    /\ certificates = <<>>
    /\ calls = <<>>
    /\ result = [op |-> "none", code |-> 0, detail |-> ""]

\* QuizResponseSchema values: the right and the wrong option of question 1, a
\* text where an option is expected, texts that are a word, blank and empty for
\* question 2, an option where a text is expected, a question that is not there.
Responses ==
    {[question_id |-> 1, selected_option_id |-> 1, text_response |-> NoText],
     [question_id |-> 1, selected_option_id |-> 2, text_response |-> NoText],
     [question_id |-> 1, selected_option_id |-> NoId, text_response |-> <<"a">>],
     [question_id |-> 2, selected_option_id |-> NoId, text_response |-> <<"a", " ">>],
     [question_id |-> 2, selected_option_id |-> NoId, text_response |-> <<" ">>],
     [question_id |-> 2, selected_option_id |-> NoId, text_response |-> <<>>],
     [question_id |-> 2, selected_option_id |-> 1, text_response |-> NoText],
     [question_id |-> 3, selected_option_id |-> 1, text_response |-> <<"a">>]}
ResponseLists == UNION {[1..n -> Responses] : n \in 0..MaxResponses}

\* Scoring: one learner submits any list of responses to either quiz.
NextQuiz ==
    \E q \in Quizzes, rs \in ResponseLists :
        /\ Len(quiz_attempts) < MaxScoredAttempts
        /\ SubmitQuizAttempt(q, "u1", rs)

SpecQuiz == InitQuiz /\ [][NextQuiz]_vars

\* The attempt limit: either learner submits one answer to any quiz, and
\* max_attempts is changed between submissions.
AttemptLists == {<<[question_id |-> 1, selected_option_id |-> 1, text_response |-> NoText]>>,
                 <<[question_id |-> 2, selected_option_id |-> NoId, text_response |-> <<"a">>]>>}

NextAttempts ==
    \/ \E q \in Quizzes \cup {NoQuiz}, u \in Users, rs \in AttemptLists :
            SubmitQuizAttempt(q, u, rs)
    \/ \E q \in Quizzes \cup {NoQuiz}, m \in 1..MaxAllowedAttempts : UpdateQuiz(q, m, Absent)

SpecAttempts == InitQuiz /\ [][NextAttempts]_vars

\* The end-to-end progress scenario: a course of 1..ScenarioModules modules,
\* one learner enrolled in it, each module's one content item recorded as
\* completed once, in any order, and the enrollment progress read at any time.
InitScenario ==
    /\ courses = [c \in Courses |-> [status |-> "draft", published_at |-> NULL, live |-> TRUE]]
    /\ modules \in {[i \in 1..n |-> [course_id |-> "c1", order_index |-> i, live |-> TRUE]] :
                        n \in 1..ScenarioModules}
    /\ enrollments = EnrollUserCall(<<>>, "u1", "c1", NULL, NULL).table
    /\ module_progress = <<>>
    /\ content_progress = <<>>
    /\ quizzes = <<>>
    /\ questions = <<>>
    /\ question_options = <<>>
    /\ quiz_attempts = <<>>
    /\ quiz_responses = <<>>
    /\ issued = {}
    /\ clock = 0
    /\ users = [u \in Users |-> [is_active |-> TRUE]]
    /\ certificates = <<>>
    /\ calls = <<>>
    /\ result = [op |-> "none", code |-> 0, detail |-> ""]

NextScenario ==
    \/ \E m \in 1..Len(modules), t \in ContentTypes, ts \in TimeIncrements :
            /\ \A i \in 1..Len(module_progress) : module_progress[i].module_id # m
            /\ UpdateContentProgress("u1", "c1", m, t, "completed", 100, ts)
    \/ GetUserProgressForCourse("u1", "c1")

SpecScenario == InitScenario /\ [][NextScenario]_vars

\* Tokens: users log in at any time; a client presents a token it was handed,
\* or one signed with another key, to the refresh endpoint and to a route
\* guarded by the access-token bearer.
Presentable ==
    {t.token : t \in issued} \cup {Encode(t.token.payload, ForgedKey) : t \in issued}

NextAuth ==
    \/ \E u \in Users \cup {NoUser}, ok \in BOOLEAN : LoginUser(u, ok)
    \/ \E t \in Presentable : RefreshToken(t)
    \/ \E t \in Presentable : LogoutUser(t)
    \/ Tick

SpecAuth == Init /\ [][NextAuth]_vars


\* Concurrent enrollment: requests for any user and course, interleaved at
\* their awaits.
NextEnrollRace ==
    \/ \E u \in Users \cup {NoUser}, c \in Courses \cup {NoCourse} :
            EnrollUserSelects(u, c, NULL, NULL)
    \/ \E r \in 1..Len(calls) : EnrollUserCommit(r)

SpecEnrollRace == Init /\ [][NextEnrollRace]_vars

\* Concurrent submissions: one learner's requests against either quiz,
\* interleaved at their awaits, max_attempts being changed at any time.
NextAttemptRace ==
    \/ \E q \in Quizzes \cup {NoQuiz}, rs \in AttemptLists : SubmitQuizAttemptCount(q, "u1", rs)
    \/ \E r \in 1..Len(calls) : SubmitQuizAttemptCommit(r)
    \/ \E q \in Quizzes, m \in 1..MaxAllowedAttempts : UpdateQuiz(q, m, Absent)

SpecAttemptRace == InitQuiz /\ [][NextAttemptRace]_vars

\* Concurrent progress recording: course c1 has one module and u1 is enrolled
\* in it; the learner's requests for that module interleave at their awaits.
InitProgressRace ==
    /\ courses = [c \in Courses |-> [status |-> "draft", published_at |-> NULL, live |-> TRUE]]
    /\ modules = <<[course_id |-> "c1", order_index |-> 0, live |-> TRUE]>>
    /\ enrollments = EnrollUserCall(<<>>, "u1", "c1", NULL, NULL).table
    /\ module_progress = <<>>
    /\ content_progress = <<>>
    /\ quizzes = <<>>
    /\ questions = <<>>
    /\ question_options = <<>>
    /\ quiz_attempts = <<>>
    /\ quiz_responses = <<>>
    /\ issued = {}
    /\ clock = 0
    /\ users = [u \in Users |-> [is_active |-> TRUE]]
    /\ certificates = <<>>
    /\ calls = <<>>
    /\ result = [op |-> "none", code |-> 0, detail |-> ""]

NextProgressRace ==
    \/ \E c \in Courses, t \in ContentTypes, st \in ProgressStatus :
            UpdateContentProgressSelects("u1", c, 1, t, st, 100, Absent)
    \/ \E r \in 1..Len(calls) : UpdateContentProgressCommit(r)
    \/ \E r \in 1..Len(calls) : UpdateModuleProgressStatusSelects(r)
    \/ \E r \in 1..Len(calls) : UpdateModuleProgressStatusCommit(r)
    \/ \E r \in 1..Len(calls) : UpdateEnrollmentProgressStatusSelects(r)
    \/ \E r \in 1..Len(calls) : UpdateEnrollmentProgressStatusCommit(r)

SpecProgressRace == InitProgressRace /\ [][NextProgressRace]_vars

\* Bulk enrollment: lists of known and unknown ids, with repeats, enrolled in
\* any course after single enrollments of any pair.
NextBulk ==
    \/ \E u \in Users, c \in Courses : EnrollUser(u, c, NULL, NULL)
    \/ \E ids \in BulkLists, c \in Courses \cup {NoCourse}, d \in DueDates :
            BulkEnrollUsers(ids, c, d, NULL)

SpecBulk == Init /\ [][NextBulk]_vars

\* Deleting courses: any user enrolled in any course, any course published
\* and deleted, in any order.
NextDeleteCourse ==
    \/ \E u \in Users, c \in Courses \cup {NoCourse} : EnrollUser(u, c, NULL, NULL)
    \/ \E c \in Courses \cup {NoCourse} : PublishCourse(c)
    \/ \E c \in Courses : CreateModule(c, 0)
    \/ \E c \in Courses \cup {NoCourse}, d \in BOOLEAN : DeleteCourse(c, d)

SpecDeleteCourse == Init /\ [][NextDeleteCourse]_vars

\* Content rows: the learner enrolled in the one-module course records any
\* status, percentage and time for either content type of the module, one
\* call at a time.
NextContent ==
    \E t \in ContentTypes, st \in ProgressStatus, p \in Percentages, ts \in TimeIncrements :
        /\ UpdateContentProgress("u1", "c1", 1, t, st, p, ts)
        /\ \A j \in 1..Len(content_progress') : content_progress'[j].time_spent <= MaxTimeSpent

SpecContent == InitProgressRace /\ [][NextContent]_vars

\* Failing requests: course c1 has two modules and u1 is enrolled in it; the
\* learner's requests run one after the other, the first to its end, and a
\* later request may fail at any await after its ContentProgress commit.
InitRecover ==
    /\ courses = [c \in Courses |-> [status |-> "draft", published_at |-> NULL, live |-> TRUE]]
    /\ modules = <<[course_id |-> "c1", order_index |-> 0, live |-> TRUE],
                   [course_id |-> "c1", order_index |-> 1, live |-> TRUE]>>
    /\ enrollments = EnrollUserCall(<<>>, "u1", "c1", NULL, NULL).table
    /\ module_progress = <<>>
    /\ content_progress = <<>>
    /\ quizzes = <<>>
    /\ questions = <<>>
    /\ question_options = <<>>
    /\ quiz_attempts = <<>>
    /\ quiz_responses = <<>>
    /\ issued = {}
    /\ clock = 0
    /\ users = [u \in Users |-> [is_active |-> TRUE]]
    /\ certificates = <<>>
    /\ calls = <<>>
    /\ result = [op |-> "none", code |-> 0, detail |-> ""]

NoCallRunning == \A r \in 1..Len(calls) : calls[r].pc \in {"done", "failed"}

NextRecover ==
    \/ /\ calls = <<>> /\ content_progress = <<>>
       /\ \E m \in 1..2, t \in ContentTypes, st \in ProgressStatus :
            UpdateContentProgress("u1", "c1", m, t, st, 100, Absent)
    \/ /\ NoCallRunning
       /\ \E m \in 1..2, t \in ContentTypes, st \in ProgressStatus :
            UpdateContentProgressSelects("u1", "c1", m, t, st, 100, Absent)
    \/ \E r \in 1..Len(calls) : UpdateContentProgressCommit(r)
    \/ \E r \in 1..Len(calls) : UpdateModuleProgressStatusSelects(r)
    \/ \E r \in 1..Len(calls) : UpdateModuleProgressStatusCommit(r)
    \/ \E r \in 1..Len(calls) : UpdateEnrollmentProgressStatusSelects(r)
    \/ \E r \in 1..Len(calls) : UpdateEnrollmentProgressStatusCommit(r)
    \/ \E r \in 1..Len(calls) : UpdateContentProgressFails(r)

SpecRecover == InitRecover /\ [][NextRecover]_vars

\* Accounts: u1 is registered and active; users are created active or
\* inactive, updated and deactivated, log in and present their tokens to the
\* refresh endpoint, at any time.
InitAccount ==
    /\ courses = [c \in Courses |-> [status |-> "draft", published_at |-> NULL, live |-> TRUE]]
    /\ modules = <<>>
    /\ enrollments = <<>>
    /\ module_progress = <<>>
    /\ content_progress = <<>>
    /\ quizzes = <<>>
    /\ questions = <<>>
    /\ question_options = <<>>
    /\ quiz_attempts = <<>>
    /\ quiz_responses = <<>>
    /\ issued = {}
    /\ clock = 0
    /\ users = ("u1" :> [is_active |-> TRUE])
    /\ certificates = <<>>
    /\ calls = <<>>
    /\ result = [op |-> "none", code |-> 0, detail |-> ""]

NextAccount ==
    \/ \E u \in Users, a \in BOOLEAN : CreateUser(u, a)
    \/ \E u \in Users \cup {NoUser} : UpdateUser(u)
    \/ \E u \in Users \cup {NoUser} : DeactivateUser(u)
    \/ \E u \in Users \cup {NoUser}, ok \in BOOLEAN : LoginUser(u, ok)
    \/ \E t \in Presentable : RefreshToken(t)
    \/ Tick

SpecAccount == InitAccount /\ [][NextAccount]_vars

\* Enrollment mail: any user is enrolled in any course, and the mail client
\* answers the assignment mail in any of its ways.
NextMail ==
    \E u \in Users \cup {NoUser}, c \in Courses \cup {NoCourse}, d \in DueDates,
       response \in MailResponses : EnrollUserMail(u, c, d, NULL, response)

SpecMail == Init /\ [][NextMail]_vars

\* Certificates: the learner enrolled in the one-module course records
\* progress, one request after the other, and certificates are created for
\* any user and course at any time.
NextCertificate ==
    \/ /\ NoCallRunning
       /\ \E t \in ContentTypes, st \in ProgressStatus :
            UpdateContentProgressSelects("u1", "c1", 1, t, st, 100, Absent)
    \/ \E r \in 1..Len(calls) : UpdateContentProgressCommit(r)
    \/ \E r \in 1..Len(calls) : UpdateModuleProgressStatusSelects(r)
    \/ \E r \in 1..Len(calls) : UpdateModuleProgressStatusCommit(r)
    \/ \E r \in 1..Len(calls) : UpdateEnrollmentProgressStatusSelects(r)
    \/ \E r \in 1..Len(calls) : UpdateEnrollmentProgressStatusCommit(r)
    \/ \E u \in Users \cup {NoUser}, c \in Courses \cup {NoCourse, NULL} : CreateCertificate(u, c)

SpecCertificate == InitProgressRace /\ [][NextCertificate]_vars

\* Reading progress: u1 is enrolled in c1, modules are created in either
\* course, progress is recorded for any module, and the two reads are made
\* at any time.
NextRead ==
    \/ EnrollUser("u1", "c1", NULL, NULL)
    \/ \E c \in Courses : CreateModule(c, 0)
    \/ \E m \in 1..Len(modules), t \in ContentTypes, s \in ProgressStatus :
            /\ UpdateContentProgress("u1", "c1", m, t, s, 100, Absent)
            /\ Len(module_progress') <= MaxModuleProgress
            /\ Len(content_progress') <= MaxContentProgress
    \/ \E c \in Courses : GetUserProgressForCourse("u1", c)
    \/ \E u \in Users \cup {NoUser} : GetUserCourseProgress(u)

SpecRead == Init /\ [][NextRead]_vars

\* =============================================================== claims
\* The content_progress rows under module_progress row i.
ContentUnder(i) == {j \in 1..Len(content_progress) : content_progress[j].module_progress_id = i}

\* C1: after any sequence of record-content-progress calls made one at a time,
\* a ModuleProgress row has status completed if and only if every
\* ContentProgress row under it has status completed.
C1_ModuleCompletedIffAllContentCompleted ==
    \A i \in 1..Len(module_progress) :
        (module_progress[i].status = "completed")
            <=> (\A j \in ContentUnder(i) : content_progress[j].status = "completed")

\* Two content items under one module, both completed, and one module whose
\* content is not all completed.
C1_Witness ==
    /\ \E i \in 1..Len(module_progress) :
        /\ Cardinality(ContentUnder(i)) >= 2
        /\ \A j \in ContentUnder(i) : content_progress[j].status = "completed"
        /\ module_progress[i].status = "completed"
    /\ result.op = "update_content_progress" /\ result.code = 200

\* A step that adds a content item under module_progress row i, which was
\* completed before the step.
AddsContentUnderCompleted(i) ==
    /\ i \in 1..Len(module_progress)
    /\ module_progress[i].status = "completed"
    /\ Len(content_progress') = Len(content_progress) + 1
    /\ content_progress'[Len(content_progress')].module_progress_id = i

\* C2 as stated: once a ModuleProgress is completed, a call that adds a
\* different content item under it never moves its status off completed.
C2_NeverRegresses ==
    [][\A i \in 1..Len(module_progress) :
          AddsContentUnderCompleted(i) => module_progress'[i].status = "completed"]_vars

\* C2 amended: such a call never moves the status back to not_started; the
\* status stays completed when the added item is completed and becomes
\* in_progress when it is not.
C2_RegressesOnlyToInProgress ==
    [][\A i \in 1..Len(module_progress) :
          AddsContentUnderCompleted(i) =>
              module_progress'[i].status =
                  IF content_progress'[Len(content_progress')].status = "completed"
                  THEN "completed" ELSE "in_progress"]_vars

\* The last call added a second, not completed item under a module whose
\* other item is completed: the module went from completed to in_progress.
C2_Witness ==
    /\ result.op = "update_content_progress" /\ result.code = 200
    /\ result.created_content_progress /\ ~result.created_module_progress
    /\ content_progress[result.content_progress_id].status # "completed"
    /\ \E j \in ContentUnder(result.module_progress_id) :
            j # result.content_progress_id /\ content_progress[j].status = "completed"
    /\ module_progress[result.module_progress_id].status = "in_progress"

\* Modules of a course and completed module_progress rows of an enrollment,
\* counted from the rows.
ModuleCount(c) == Cardinality({m \in 1..Len(modules) : modules[m].live /\ modules[m].course_id = c})
CompletedCount(e) ==
    Cardinality({i \in 1..Len(module_progress) :
                    module_progress[i].enrollment_id = e /\ module_progress[i].status = "completed"})

\* C3: immediately after every successful record-content-progress call the
\* enrollment's progress_percentage is 100 x completed rows / modules of the
\* course, and 100 when the course has no module.
C3_PercentageIsRecomputed ==
    (result.op = "update_content_progress" /\ result.code = 200) =>
        LET e == result.enrollment_id
            p == enrollments[e].progress_percentage
            total == ModuleCount(enrollments[e].course_id)
        IN  IF total = 0
            THEN p[1] = 100 * p[2]
            ELSE p[1] * total = 100 * CompletedCount(e) * p[2]

\* After a call, one of two modules of the course is completed: 50 percent.
C3_Witness ==
    /\ result.op = "update_content_progress" /\ result.code = 200
    /\ ModuleCount(enrollments[result.enrollment_id].course_id) = 2
    /\ CompletedCount(result.enrollment_id) = 1
    /\ enrollments[result.enrollment_id].progress_percentage = <<50, 1>>

\* C4 as stated: every Enrollment.progress_percentage lies in 0..100.
C4_PercentageInRange ==
    \A e \in 1..Len(enrollments) :
        /\ enrollments[e].progress_percentage[1] >= 0
        /\ enrollments[e].progress_percentage[1] <= 100 * enrollments[e].progress_percentage[2]

\* No two enrollment rows for one (user, course) pair.
OneEnrollmentPerPair ==
    \A i, j \in 1..Len(enrollments) :
        (enrollments[i].user_id = enrollments[j].user_id
            /\ enrollments[i].course_id = enrollments[j].course_id) => i = j

Enrolled(u, c) ==
    \E i \in 1..Len(enrollments) : enrollments[i].user_id = u /\ enrollments[i].course_id = c

\* C5: enroll_user for a pair that is already enrolled fails with 400 'User is
\* already enrolled in this course' and changes no row; bulk enroll records the
\* same failure for such an id and changes no existing row; there is never
\* more than one Enrollment per (user, course) pair.
C5_DuplicateEnrollmentRejected ==
    /\ []OneEnrollmentPerPair
    /\ [][\A u \in Users, c \in Courses :
            (/\ Enrolled(u, c)
             /\ result'.op = "enroll_user"
             /\ \E d \in DueDates, a \in Assigners : EnrollUser(u, c, d, a))
            => /\ result'.code = 400
               /\ result'.detail = "User is already enrolled in this course"
               /\ enrollments' = enrollments]_vars
    /\ [][\A ids \in BulkLists, c \in Courses :
            (/\ result'.op = "bulk_enroll_users"
             /\ \E n \in 1..Len(ids) : Enrolled(ids[n], c)
             /\ \E d \in DueDates, a \in Assigners : BulkEnrollUsers(ids, c, d, a))
            => /\ SubSeq(enrollments', 1, Len(enrollments)) = enrollments
               /\ \A n \in 1..Len(ids) :
                    Enrolled(ids[n], c) =>
                        \E k \in 1..Len(result'.failures) :
                            /\ result'.failures[k].user_id = ids[n]
                            /\ result'.failures[k].code = 400
                            /\ result'.failures[k].error = "User is already enrolled in this course"]_vars

\* A second enroll_user for an enrolled pair has just been rejected.
C5_Witness ==
    /\ result.op = "enroll_user" /\ result.code = 400
    /\ result.detail = "User is already enrolled in this course"
    /\ Len(enrollments) >= 1

LastAttempt == quiz_attempts[result.attempt_id]
Submitted == result.op = "submit_quiz_attempt" /\ result.code = 200

NonEmpty(text) == text # NoText /\ Len(text) > 0
NonBlank(text) == text # NoText /\ \E i \in 1..Len(text) : text[i] # " "

\* What a response earns: the points of its question when the selected option
\* is a correct one (multiple choice, true/false) or when the text counts as an
\* answer (short answer, essay), a blank text counting or not; 0 otherwise.
Credit(r, blank_counts) ==
    IF r.question_id \notin 1..Len(questions) THEN 0
    ELSE IF questions[r.question_id].question_type \in {"multiple_choice", "true_false"}
    THEN IF /\ r.selected_option_id \in 1..Len(question_options)
            /\ question_options[r.selected_option_id].is_correct
         THEN questions[r.question_id].points ELSE 0
    ELSE IF (IF blank_counts THEN NonEmpty(r.text_response) ELSE NonBlank(r.text_response))
         THEN questions[r.question_id].points ELSE 0

RECURSIVE CreditSum(_, _, _)
CreditSum(rs, n, blank_counts) ==
    IF n = 0 THEN 0 ELSE CreditSum(rs, n - 1, blank_counts) + Credit(rs[n], blank_counts)

AttemptCount(q, u) ==
    Cardinality({i \in 1..Len(quiz_attempts) :
                    quiz_attempts[i].quiz_id = q /\ quiz_attempts[i].user_id = u})

\* C9: with max_attempts = n, a submit_quiz_attempt call made when n attempt
\* rows exist for the (quiz, user) fails with 400 'Maximum attempts reached'
\* and adds no quiz_attempt and no quiz_response row; a call that adds an
\* attempt row never takes the pair's count above n.
C9_MaxAttemptsEnforced ==
    /\ [][\A q \in Quizzes, u \in Users :
            (/\ AttemptCount(q, u) >= quizzes[q].max_attempts
             /\ result'.op = "submit_quiz_attempt"
             /\ \E rs \in AttemptLists : SubmitQuizAttempt(q, u, rs))
            => /\ result'.code = 400
               /\ result'.detail = "Maximum attempts reached"
               /\ quiz_attempts' = quiz_attempts
               /\ quiz_responses' = quiz_responses]_vars
    /\ [][\A q \in Quizzes, u \in Users :
            AttemptCount(q, u)' > AttemptCount(q, u)
                => AttemptCount(q, u)' <= quizzes[q].max_attempts]_vars

\* A learner who has used both attempts of a quiz with max_attempts = 2 has
\* just been refused a third.
C9_Witness ==
    /\ result.op = "submit_quiz_attempt" /\ result.code = 400
    /\ result.detail = "Maximum attempts reached"
    /\ \E q \in Quizzes, u \in Users :
            quizzes[q].max_attempts = 2 /\ AttemptCount(q, u) = 2

\* Modules whose content item has been recorded as completed.
ModulesDone ==
    {m \in 1..Len(modules) :
        \E i \in 1..Len(module_progress) :
            /\ module_progress[i].module_id = m
            /\ \E j \in ContentUnder(i) : content_progress[j].status = "completed"}

\* C10: with k of the N modules done, 0 < k < N, the enrollment-progress read
\* shows 100 k / N percent and status in_progress; with all N done it shows
\* 100 percent, status completed and a non-null completed_at.
C10_ReadShowsShareOfModulesDone ==
    (result.op = "get_user_progress_for_course" /\ result.code = 200) =>
        LET k == Cardinality(ModulesDone)
            N == Len(modules)
        IN  /\ (0 < k /\ k < N) =>
                    /\ result.progress_percentage[1] * N = 100 * k * result.progress_percentage[2]
                    /\ result.enrollment_status = "in_progress"
            /\ k = N =>
                    /\ result.progress_percentage = <<100, 1>>
                    /\ result.enrollment_status = "completed"
                    /\ result.completed_at # NULL

\* The read after two of three modules: 200/3 percent, in progress.
C10_Witness ==
    /\ result.op = "get_user_progress_for_course" /\ result.code = 200
    /\ Len(modules) = 3 /\ Cardinality(ModulesDone) = 2
    /\ result.progress_percentage = <<200, 3>>
    /\ result.enrollment_status = "in_progress"
    /\ result.completed_at = NULL

\* C11: a record-content-progress call by a user who holds no Enrollment for
\* the given course fails with 404 'User not enrolled in this course' and
\* leaves the module_progress, content_progress and enrollment tables as they
\* were.
C11_NotEnrolledIsRefused ==
    [][\A c \in Courses :
        (/\ ~Enrolled("u1", c)
         /\ result'.op = "update_content_progress"
         /\ \E m \in 1..Len(modules), t \in ContentTypes, s \in ProgressStatus :
                UpdateContentProgress("u1", c, m, t, s, 100, Absent))
        => /\ result'.code = 404
           /\ result'.detail = "User not enrolled in this course"
           /\ UNCHANGED <<module_progress, content_progress, enrollments>>]_vars

\* The learner is enrolled in one course and has progress rows there, and the
\* last call, for a course the learner is not enrolled in, was refused.
C11_Witness ==
    /\ result.op = "update_content_progress" /\ result.code = 404
    /\ result.detail = "User not enrolled in this course"
    /\ Len(enrollments) = 1
    /\ Len(module_progress) >= 1 /\ Len(content_progress) >= 1

\* C12: a refresh token handed out by login_user or refresh_token, presented
\* as the bearer token of a route guarded by access_token_bearer, is answered
\* with HTTP 401.
C12_RefreshTokenRejectedByAccessBearer ==
    [][\A t \in issued :
        (t.field = "refresh_token" /\ LogoutUser(t.token)) => result'.code = 401]_vars

\* Rows of the enrollment table for the pair (u, c).
EnrollmentsOf(u, c) ==
    {i \in 1..Len(enrollments) : enrollments[i].user_id = u /\ enrollments[i].course_id = c}

\* C13: two enroll_user requests for one (user, course) pair that run
\* concurrently both pass the existence check before either commits, and then
\* both insert: a request that has passed its check inserts its row when it
\* commits, whatever was committed since, so the pair gets one more row each
\* time, also when it has a row already.
C13_CheckedRequestAlwaysInserts ==
    [][\A r \in 1..Len(calls) :
        (calls[r].op = "enroll_user" /\ calls[r].pc = "commit" /\ EnrollUserCommit(r))
        => Cardinality(EnrollmentsOf(calls[r].user_id, calls[r].course_id)')
             = Cardinality(EnrollmentsOf(calls[r].user_id, calls[r].course_id)) + 1]_vars

\* Two requests for one pair have both passed the check and both committed:
\* the pair has two Enrollment rows.
C13_Witness ==
    /\ \E r1, r2 \in 1..Len(calls) :
        /\ r1 < r2
        /\ calls[r1].pc = "done" /\ calls[r2].pc = "done"
        /\ calls[r1].user_id = calls[r2].user_id /\ calls[r1].course_id = calls[r2].course_id
    /\ Cardinality(EnrollmentsOf("u1", "c1")) = 2
    /\ result.op = "enroll_user" /\ result.code = 200

\* Rows of the quiz_attempt table of quiz q and user u.
AttemptsOf(q, u) ==
    {i \in 1..Len(quiz_attempts) : quiz_attempts[i].quiz_id = q /\ quiz_attempts[i].user_id = u}

\* C14: two submit_quiz_attempt requests of one user for one quiz that run
\* concurrently while max_attempts - 1 attempts exist both pass the count
\* check and both insert: a request that has passed its check adds its row
\* when it commits, numbered from the count it read, whatever was committed
\* since, so the rows may outnumber max_attempts and share an attempt_number.
C14_CountedRequestAlwaysInserts ==
    [][\A r \in 1..Len(calls) :
        (calls[r].op = "submit_quiz_attempt" /\ calls[r].pc = "commit"
            /\ SubmitQuizAttemptCommit(r))
        => /\ Len(quiz_attempts') = Len(quiz_attempts) + 1
           /\ quiz_attempts'[Len(quiz_attempts')].quiz_id = calls[r].quiz_id
           /\ quiz_attempts'[Len(quiz_attempts')].user_id = calls[r].user_id
           /\ quiz_attempts'[Len(quiz_attempts')].attempt_number
                = calls[r].user_attempts_count + 1]_vars

\* With max_attempts 2 and one attempt made, two requests both counted 1 and
\* both committed: three rows, two of them numbered 2.
C14_Witness ==
    /\ quizzes["q1"].max_attempts = 2
    /\ Cardinality(AttemptsOf("q1", "u1")) = 3
    /\ \E r1, r2 \in 1..Len(calls) :
        /\ r1 < r2
        /\ calls[r1].pc = "done" /\ calls[r2].pc = "done"
        /\ calls[r1].quiz_id = "q1" /\ calls[r2].quiz_id = "q1"
        /\ calls[r1].user_attempts_count = 1 /\ calls[r2].user_attempts_count = 1
    /\ \E i, j \in AttemptsOf("q1", "u1") :
        i # j /\ quiz_attempts[i].attempt_number = 2 /\ quiz_attempts[j].attempt_number = 2

\* ModuleProgress row i has the status the roll-up rules give for the
\* ContentProgress rows under it.
ModuleRollUpAgrees(i) ==
    module_progress[i].status
        = UpdateModuleProgressStatus(module_progress, content_progress, i)[i].status

\* Enrollment row e has the percentage and status the roll-up rules give for
\* its ModuleProgress rows.
EnrollmentRollUpAgrees(e) ==
    \E rolled \in {UpdateEnrollmentProgressStatus(enrollments, module_progress, modules, e)[e]} :
        /\ enrollments[e].status = rolled.status
        /\ enrollments[e].progress_percentage = rolled.progress_percentage

AllReturned == \A r \in 1..Len(calls) : calls[r].pc = "done"

\* C15: two record-content-progress requests for one enrollment that run
\* concurrently can leave, after both have returned, a ModuleProgress status
\* or an Enrollment percentage or status that the roll-up rules do not give
\* for the final rows: each roll-up commits the values it worked out from the
\* rows it read before, whatever was committed since (a request that runs
\* alone leaves the roll-ups in agreement).
C15_RollUpCommitsWhatItRead ==
    /\ [][\A r \in 1..Len(calls) :
            /\ (calls[r].pc = "module_commit" /\ UpdateModuleProgressStatusCommit(r))
               => module_progress'[calls[r].module_progress_id].status
                    = IF calls[r].computed_module_progress.status
                            # calls[r].module_progress.status
                      THEN calls[r].computed_module_progress.status
                      ELSE module_progress[calls[r].module_progress_id].status
            /\ (calls[r].pc = "enrollment_commit" /\ UpdateEnrollmentProgressStatusCommit(r))
               => enrollments'[calls[r].enrollment_id].status
                    = IF calls[r].computed_enrollment.status # calls[r].enrollment.status
                      THEN calls[r].computed_enrollment.status
                      ELSE enrollments[calls[r].enrollment_id].status]_vars
    /\ []((Len(calls) = 1 /\ AllReturned)
            => /\ \A i \in 1..Len(module_progress) : ModuleRollUpAgrees(i)
               /\ \A e \in 1..Len(enrollments) : EnrollmentRollUpAgrees(e))

\* Both requests have returned; the one ModuleProgress row is completed, as
\* worked out by the request that read the rows first, while a ContentProgress
\* row under it is not, and the enrollment stands at 100 percent, completed.
C15_Witness ==
    /\ Len(calls) = 2 /\ AllReturned
    /\ result.op = "update_content_progress" /\ result.code = 200
    /\ Len(module_progress) = 1
    /\ module_progress[1].status = "completed"
    /\ \E j \in ContentUnder(1) : content_progress[j].status # "completed"
    /\ ~ModuleRollUpAgrees(1)
    /\ enrollments[1].status = "completed"

\* The n-th id of a bulk enrollment can be enrolled: it names a user, the
\* course exists, the pair has no Enrollment and the id is not one of the
\* ids before it in the list.
CanEnroll(ids, n, c) ==
    /\ ids[n] \in Users /\ c \in Courses
    /\ ~Enrolled(ids[n], c)
    /\ \A k \in 1..(n - 1) : ids[k] # ids[n]

\* The ids among the first n that can (want) or cannot (~want) be enrolled,
\* in the order of the list.
RECURSIVE IdsThat(_, _, _, _)
IdsThat(ids, n, c, want) ==
    IF n = 0 THEN <<>>
    ELSE IF CanEnroll(ids, n, c) = want
    THEN Append(IdsThat(ids, n - 1, c, want), ids[n])
    ELSE IdsThat(ids, n - 1, c, want)

C18_NoEnrollmentIsDropped ==
    \A i \in 1..Len(enrollments) :
        enrollments[i].status \in EnrollmentStatus \ {"dropped"}

\* The roll-up has just written the status of an enrollment none of whose
\* modules is completed.
C18_Witness ==
    /\ result.op = "update_content_progress" /\ result.code = 200
    /\ Len(module_progress) >= 1
    /\ CompletedModulesCount(module_progress, result.enrollment_id) = 0
    /\ enrollments[result.enrollment_id].status = "enrolled"

\* C19: with record-content-progress calls made one at a time for one
\* (module progress, content_type), the ContentProgress row has the status
\* and progress_percentage of the latest call, whatever they were before, and
\* its time_spent is the sum of the time_spent of all the calls, a missing
\* one counting 0: each call adds its own to what the row held, a new row
\* starting from 0; the other rows are left as they are.
C19_LatestWriteWinsTimeAdds ==
    [][\A t \in ContentTypes, st \in ProgressStatus, p \in Percentages, ts \in TimeIncrements :
        (/\ result'.op = "update_content_progress"
         /\ UpdateContentProgress("u1", "c1", 1, t, st, p, ts))
        => \E id \in {result'.content_progress_id} :
           \E before \in {IF result'.created_content_progress THEN 0
                          ELSE content_progress[id].time_spent} :
            /\ result'.code = 200
            /\ result'.created_content_progress
                = (FindContentProgress(content_progress, result'.module_progress_id, t) = 0)
            /\ content_progress'[id].module_progress_id = result'.module_progress_id
            /\ content_progress'[id].content_type = t
            /\ content_progress'[id].status = st
            /\ content_progress'[id].progress_percentage = p
            /\ content_progress'[id].time_spent = before + (IF ts = Absent THEN 0 ELSE ts)
            /\ \A j \in 1..Len(content_progress) : j # id => content_progress'[j] = content_progress[j]
            /\ Len(content_progress') = Len(content_progress)
                    + (IF result'.created_content_progress THEN 1 ELSE 0)]_vars

\* A row that has taken up the time of several calls has just been set back
\* to not_started and 0 percent by a call that gave no time_spent.
C19_Witness ==
    /\ result.op = "update_content_progress" /\ result.code = 200
    /\ ~result.created_content_progress
    /\ content_progress[result.content_progress_id].status = "not_started"
    /\ content_progress[result.content_progress_id].progress_percentage = 0
    /\ content_progress[result.content_progress_id].time_spent = MaxTimeSpent

\* C20: with calls made one at a time there is at most one ModuleProgress row
\* per (enrollment, module) and at most one ContentProgress row per
\* (ModuleProgress, content_type).
C20_OneProgressRowPerKey ==
    /\ \A i, j \in 1..Len(module_progress) :
        (/\ module_progress[i].enrollment_id = module_progress[j].enrollment_id
         /\ module_progress[i].module_id = module_progress[j].module_id) => i = j
    /\ \A i, j \in 1..Len(content_progress) :
        (/\ content_progress[i].module_progress_id = content_progress[j].module_progress_id
         /\ content_progress[i].content_type = content_progress[j].content_type) => i = j

\* A call for a module and content type that had their rows has found and
\* kept them, while rows for another module or content type exist as well.
C20_Witness ==
    /\ result.op = "update_content_progress" /\ result.code = 200
    /\ ~result.created_module_progress /\ ~result.created_content_progress
    /\ Len(content_progress) = 2

\* C21 as stated: after a successful record-content-progress call the
\* enrollment's status is completed when the course has no module or when its
\* completed module_progress rows number as many as the course's modules,
\* in_progress when that number is positive and below the module count, and
\* enrolled otherwise.
C21_StatusFollowsCompletedCount ==
    (result.op = "update_content_progress" /\ result.code = 200) =>
        LET e == result.enrollment_id
            total == ModuleCount(enrollments[e].course_id)
            count == CompletedCount(e)
        IN  enrollments[e].status =
                IF total = 0 \/ count = total THEN "completed"
                ELSE IF 0 < count /\ count < total THEN "in_progress"
                ELSE "enrolled"

\* What the code stores: in_progress for every positive count other than the
\* module count, a count above it included.
C21_StatusFollowsCompletedCountAsCoded ==
    (result.op = "update_content_progress" /\ result.code = 200) =>
        LET e == result.enrollment_id
            total == ModuleCount(enrollments[e].course_id)
            count == CompletedCount(e)
        IN  enrollments[e].status =
                IF total = 0 \/ count = total THEN "completed"
                ELSE IF 0 < count THEN "in_progress"
                ELSE "enrolled"

\* C22: after a successful record-content-progress call the module_progress
\* row of the call is in_progress exactly when at least one but not all of the
\* content_progress rows under it are completed, and not_started exactly when
\* none is completed, whatever the row's status was before the roll-up and
\* whatever the other statuses of the content rows are.
C22_ModuleStatusFromCompletedItems ==
    (result.op = "update_content_progress" /\ result.code = 200) =>
        LET i == result.module_progress_id
            done == {j \in ContentUnder(i) : content_progress[j].status = "completed"}
        IN  /\ module_progress[i].status = "in_progress" <=> (done # {} /\ done # ContentUnder(i))
            /\ module_progress[i].status = "not_started" <=> done = {}

\* The call created the module_progress row (built with status in_progress)
\* and recorded its item as in_progress: the row is not_started.
C22_Witness ==
    /\ result.op = "update_content_progress" /\ result.code = 200
    /\ result.created_module_progress
    /\ content_progress[result.content_progress_id].status = "in_progress"
    /\ module_progress[result.module_progress_id].status = "not_started"

\* The module_progress table with every status worked out anew from the
\* content_progress rows.
RolledFromContent ==
    [i \in 1..Len(module_progress) |->
        UpdateModuleProgressStatus(module_progress, content_progress, i)[i]]

\* Enrollment row e has the percentage and status the roll-up rules give for
\* the ContentProgress rows under its ModuleProgress rows.
EnrollmentAgreesWithContent(e) ==
    \E rolled \in {UpdateEnrollmentProgressStatus(enrollments, RolledFromContent, modules, e)[e]} :
        /\ enrollments[e].status = rolled.status
        /\ enrollments[e].progress_percentage = rolled.progress_percentage

\* C23: a record-content-progress request that fails after its
\* ContentProgress commit changes no row when it fails, so its ContentProgress
\* write stays; and when a later request for the same enrollment and module
\* returns successfully, the ModuleProgress status is the one the roll-up
\* rules give for the ContentProgress rows under it and the enrollment's
\* percentage and status are the ones they give for its ModuleProgress rows,
\* and for the ContentProgress rows when every failed request was for that
\* module.
C23_NextCallRepairsRollUps ==
    /\ [][\A r \in 1..Len(calls) :
            UpdateContentProgressFails(r) =>
                /\ UNCHANGED <<content_progress, module_progress, enrollments>>
                /\ content_progress[calls[r].content_progress_id].status = calls[r].status]_vars
    /\ [](\A r \in 1..Len(calls) :
            (result.op = "update_content_progress" /\ result.code = 200
                /\ calls # <<>> /\ r = Len(calls) /\ calls[r].pc = "done")
            => /\ ModuleRollUpAgrees(calls[r].module_progress_id)
               /\ EnrollmentRollUpAgrees(calls[r].enrollment_id)
               /\ (\A f \in 1..Len(calls) :
                        calls[f].pc = "failed"
                            => calls[f].module_progress_id = calls[r].module_progress_id)
                    => EnrollmentAgreesWithContent(calls[r].enrollment_id))

\* The first request completed the video of module 1 and failed before the
\* module roll-up was committed; the second completed the quiz of module 1
\* and returned: both rows are completed, the module is completed and the
\* enrollment stands at 1 of 2 modules, in_progress.
C23_Witness ==
    /\ Len(calls) = 2
    /\ calls[1].pc = "failed" /\ calls[2].pc = "done"
    /\ calls[1].module_progress_id = calls[2].module_progress_id
    /\ calls[1].content_progress_id # calls[2].content_progress_id
    /\ content_progress[calls[1].content_progress_id].status = "completed"
    /\ content_progress[calls[2].content_progress_id].status = "completed"
    /\ module_progress[calls[2].module_progress_id].status = "completed"
    /\ enrollments[calls[2].enrollment_id].status = "in_progress"
    /\ enrollments[calls[2].enrollment_id].progress_percentage = <<50, 1>>

\* The tokens handed out whose subject is user u.
IssuedTo(u) == {t \in issued : t.token.payload.sub = u}

\* For a user whose is_active is false: a login with the right password and
\* a refresh with a token of the user that verifies are refused, no token is
\* handed to the user, and the row stays, inactive, whatever is called.
InactiveUserStaysOut(u) ==
    ~users[u].is_active =>
        /\ u \in DOMAIN users' /\ ~users'[u].is_active
        /\ IssuedTo(u)' = IssuedTo(u)
        /\ LoginUser(u, TRUE) => result'.code = 401
        /\ \A t \in Presentable :
                (t.payload.sub = u /\ DecodeToken(t, clock) # NoPayload /\ RefreshToken(t))
                    => result'.code = 401

\* C24 as stated: deactivate_user of a registered user sets is_active false,
\* and from then on a login with correct credentials and a refresh with the
\* user's valid refresh token fail with 401, is_active is never set back to
\* true, no token is issued to the user and the User row is never deleted.
C24_DeactivatedUserGetsNoToken ==
    [][\A u \in DOMAIN users :
            /\ DeactivateUser(u) => ~users'[u].is_active
            /\ InactiveUserStaysOut(u)]_vars

\* What holds of the code: a user whose is_active is false (create_user can
\* store one) is refused at login, gets no token and stays inactive.
C24_InactiveUserGetsNoToken ==
    [][\A u \in DOMAIN users : InactiveUserStaysOut(u)]_vars

C26_OnlyCreateCertificateAddsCertificates ==
    [][/\ certificates' # certificates => result'.op = "create_certificate"
       /\ result'.op = "update_content_progress" => certificates' = certificates]_vars

\* A record-content-progress call has just brought the enrollment to
\* completed, and there is no certificate.
C26_Witness ==
    /\ result.op = "update_content_progress" /\ result.code = 200
    /\ calls[result.call].pc = "done"
    /\ enrollments[calls[result.call].enrollment_id].status = "completed"
    /\ calls[result.call].enrollment.status # "completed"
    /\ certificates = <<>>

\* C27 as stated: every quiz attempt has earned_points <= total_points and a
\* score from 0 to 100.
C27_EarnedPointsWithinTotal ==
    \A i \in 1..Len(quiz_attempts) :
        /\ quiz_attempts[i].earned_points <= quiz_attempts[i].total_points
        /\ quiz_attempts[i].score[1] >= 0
        /\ quiz_attempts[i].score[1] <= 100 * quiz_attempts[i].score[2]

\* The enrollment row e as _update_enrollment_progress_status would store it
\* in this state.
RolledEnrollment(e) == UpdateEnrollmentProgressStatus(enrollments, module_progress, modules, e)[e]

\* C28 as stated: the progress_percentage that get_user_progress_for_course
\* and get_user_course_progress return for an enrollment is the one the
\* enrollment roll-up of a record-content-progress call stores in the same
\* state, a course with zero modules included.
C28_ReadsAgreeWithRollUp ==
    /\ (result.op = "get_user_progress_for_course" /\ result.code = 200) =>
            result.progress_percentage = RolledEnrollment(result.enrollment_id).progress_percentage
    /\ (result.op = "get_user_course_progress" /\ result.code = 200) =>
            \A e \in DOMAIN result.items :
                result.items[e].progress_percentage = RolledEnrollment(e).progress_percentage

\* What holds of the code: the reads and the roll-up agree for a course that
\* has a module, and the reads change no row.
C28_ReadsAgreeWithRollUpWithModules ==
    /\ [](/\ (result.op = "get_user_progress_for_course" /\ result.code = 200
                /\ result.total_modules > 0) =>
                result.progress_percentage
                    = RolledEnrollment(result.enrollment_id).progress_percentage
          /\ (result.op = "get_user_course_progress" /\ result.code = 200) =>
                \A e \in DOMAIN result.items :
                    result.items[e].total_modules > 0 =>
                        result.items[e].progress_percentage
                            = RolledEnrollment(e).progress_percentage)
    /\ [][result'.op \in {"get_user_progress_for_course", "get_user_course_progress"}
            => UNCHANGED <<courses, modules, enrollments, module_progress, content_progress>>]_vars

\* C29 as stated: every enrollment whose status is completed and every
\* module_progress row whose status is completed has a completed_at.
C29_CompletedHasCompletedAt ==
    /\ \A e \in 1..Len(enrollments) :
            enrollments[e].status = "completed" => enrollments[e].completed_at # NULL
    /\ \A i \in 1..Len(module_progress) :
            module_progress[i].status = "completed" => module_progress[i].completed_at # NULL

\* What holds of the code: the module_progress half, and the enrollment half
\* for a course that has a module when its enrollment is rolled up.
C29_CompletedModuleHasCompletedAt ==
    \A i \in 1..Len(module_progress) :
        module_progress[i].status = "completed" => module_progress[i].completed_at # NULL

\* C30 as stated: refresh_token called with a token that was handed out as an
\* access token is rejected with 401 and hands out no token.
C30_AccessTokenRefusedAtRefresh ==
    [][\A t \in {i.token : i \in {j \in issued : j.field = "access_token"}} :
            RefreshToken(t) => /\ result'.code = 401
                               /\ issued' = issued]_vars

\* What holds of the code: refresh_token hands out no token, whatever it is
\* given.
C30_RefreshIssuesNothing ==
    [][result'.op = "refresh_token" => (result'.code # 200 /\ issued' = issued)]_vars

====
